---------------------------- MODULE Spec2Model ----------------------------
(***************************************************************************)
(* Model of the mkdocs-filter incremental log-stream classifier.           *)
(*                                                                         *)
(* Text is modelled at token granularity.  A line is a sequence of tokens; *)
(* every token stands for a fixed fragment of text, adjacent tokens are    *)
(* separated by one blank, and the token "sp" is an explicit run of        *)
(* whitespace (indentation, trailing blanks).  The regular expressions of  *)
(* the source are evaluated on the token sequence.  Python's None is the   *)
(* empty sequence where the value is a sequence and the string "None"      *)
(* where it is a string.  Sequences are 1-based: the model's index k is    *)
(* the source's index k-1.                                                 *)
(*                                                                         *)
(*   "INFO" "DEBUG" "WARNING" "ERROR"   the severity words                 *)
(*   "-"                 a dash                                            *)
(*   "date"              2024-01-15 10:00:00,000                           *)
(*   "[stderr]"          [stderr]                                          *)
(*   "built1" "built2"   Documentation built in 1.00 / 0.50 seconds        *)
(*   "serving"           Serving on http://127.0.0.1:8000/                 *)
(*   "serving2"          Serving on http://localhost:8001/                 *)
(*   "detected"          Detected file changes                             *)
(*   "reloading"         Reloading docs                                    *)
(*   "building"          Building documentation                            *)
(*   "todir"             Building documentation to directory: /site        *)
(*   "todir2"            Building documentation to directory: /out         *)
(*   "markdown_exec:"    markdown_exec: Execution of python code block ... *)
(*   "codeis" "outis"    Code block is:   /   Output is:                   *)
(*   "ValueError:" "KeyError:"   ValueError: boom  /  KeyError: k          *)
(*   "frame"             File "<code block: session s; n1>", line 3, in m  *)
(*   "frame2"            File "<code block: session t; n2>", line 7, in m  *)
(*   "File" "raise"      File "x.py", line 1   /   raise ...               *)
(*   "Reading:" "a.md" "b.md"   verbose-mode Reading: <file>               *)
(*   "Docfile" "'a.md'" "'b.md'"  Doc file '<file>'                        *)
(*   "breadcrumb"        Generated breadcrumb string: [T](/p)              *)
(*   "Exception:"        Exception: e                                      *)
(*   "DeprecationWarning:"   DeprecationWarning: d                         *)
(*   "brokenlink"        contains a link 't.md', but the target is not     *)
(*                       found among documentation files                   *)
(*   "warned2"           the build tool's summary: ... 2 warnings          *)
(*   "x" "y" "z"         plain words                                       *)
(***************************************************************************)
EXTENDS Integers, Sequences, FiniteSets, TLC

\* ------------------------------------------------------------ text helpers

RECURSIVE lstrip(_)
lstrip(s) == IF s # <<>> /\ Head(s) = "sp" THEN lstrip(Tail(s)) ELSE s

RECURSIVE rstrip(_)
rstrip(s) ==
  IF s # <<>> /\ s[Len(s)] = "sp" THEN rstrip(SubSeq(s, 1, Len(s) - 1)) ELSE s

strip(s) == lstrip(rstrip(s))

\* "tok" in line, for a fragment that only the token tok contains
Contains(s, tok) == \E i \in 1..Len(s) : s[i] = tok

\* the first index >= i of s that holds no whitespace (Len(s)+1 if none)
RECURSIVE SkipSp(_, _)
SkipSp(s, i) == IF i <= Len(s) /\ s[i] = "sp" THEN SkipSp(s, i + 1) ELSE i

\* the tokens that read "Documentation built in <number> seconds"
BuiltTokens == {"built1", "built2"}

\* re.search(r"Documentation built in [\d.]+ seconds", line)
MatchesBuilt(line) == \E i \in 1..Len(line) : line[i] \in BuiltTokens

\* re.search(r"Serving on https?://", line)
ServingTokens == {"serving", "serving2"}
MatchesServing(line) == \E i \in 1..Len(line) : line[i] \in ServingTokens

\* the tokens that read "Building documentation to directory: <path>"
DirTokens == {"todir", "todir2"}

\* the text "Building documentation" occurs in "building" and in "todir"
ContainsBuildingDocumentation(line) ==
  Contains(line, "building") \/ \E i \in 1..Len(line) : line[i] \in DirTokens

\* re.match(r"^\d{4}-\d{2}-\d{2}", s)
StartsWithDate(s) == s # <<>> /\ Head(s) = "date"

\* re.match(r"^(<sevs>)\s*-", s)
StartsWithSevDash(s, sevs) ==
  /\ s # <<>>
  /\ Head(s) \in sevs
  /\ LET j == SkipSp(s, 2) IN j <= Len(s) /\ s[j] = "-"

\* re.match(r"^\d{4}-\d{2}-\d{2}.*?(INFO|WARNING|ERROR)", s)
StartsWithDateThenSev(s) ==
  StartsWithDate(s) /\ \E i \in 2..Len(s) : s[i] \in {"INFO", "WARNING", "ERROR"}

\* --------------------------------------------------- Boundary Classifier

NoLine == <<>>          \* prev_line is None
SomeLine(l) == <<l>>    \* prev_line is the line l

detect_chunk_boundary_swapped(line, prev_line) ==
  LET stripped == strip(line) IN
  IF Contains(line, "detected") \/ Contains(line, "reloading")
    THEN "rebuild_started"
  ELSE IF MatchesBuilt(line) THEN "build_complete"
  ELSE IF MatchesServing(line) THEN "server_started"
  ELSE IF StartsWithDate(stripped) /\ ContainsBuildingDocumentation(line)
    THEN "rebuild_started"
  ELSE IF prev_line # NoLine /\ strip(prev_line[1]) = <<>>
            /\ (\/ StartsWithSevDash(stripped, {"INFO", "WARNING", "ERROR"})
                \/ StartsWithDateThenSev(stripped))
    THEN "error_block_end"
  ELSE "none"

detect_chunk_boundary_noprev(line, prev_line) ==
  LET stripped == strip(line) IN
  IF MatchesBuilt(line) THEN "build_complete"
  ELSE IF MatchesServing(line) THEN "server_started"
  ELSE IF Contains(line, "detected") \/ Contains(line, "reloading")
    THEN "rebuild_started"
  ELSE IF StartsWithDate(stripped) /\ ContainsBuildingDocumentation(line)
    THEN "rebuild_started"
  ELSE IF (\/ StartsWithSevDash(stripped, {"INFO", "WARNING", "ERROR"})
           \/ StartsWithDateThenSev(stripped))
    THEN "error_block_end"
  ELSE "none"

detect_chunk_boundary(line, prev_line) ==
  LET stripped == strip(line) IN
  IF MatchesBuilt(line) THEN "build_complete"
  ELSE IF MatchesServing(line) THEN "server_started"
  ELSE IF Contains(line, "detected") \/ Contains(line, "reloading")
    THEN "rebuild_started"
  ELSE IF StartsWithDate(stripped) /\ ContainsBuildingDocumentation(line)
    THEN "rebuild_started"
  ELSE IF prev_line # NoLine /\ strip(prev_line[1]) = <<>>
            /\ (\/ StartsWithSevDash(stripped, {"INFO", "WARNING", "ERROR"})
                \/ StartsWithDateThenSev(stripped))
    THEN "error_block_end"
  ELSE "none"

ChunkBoundary ==
  {"build_complete", "server_started", "rebuild_started", "error_block_end", "none"}

\* ------------------------------------------------------ Block Reconstructor

Level == {"ERROR", "WARNING"}

MdNames == {"a.md", "b.md"}
QuotedMd == {"'a.md'", "'b.md'"}
DoubleQuotedMd == {"\"a.md\""}

\* the path between the quotes
Unquote(tok) ==
  CASE tok = "'a.md'" -> "a.md"
    [] tok = "'b.md'" -> "b.md"
    [] tok = "\"a.md\"" -> "a.md"
    [] OTHER -> tok

\* re.search(r"DEBUG\s*-\s*Reading:\s*(\S+\.md)", l): the index of the file name
ReadingMatches(l) ==
  { k \in 1..Len(l) :
      \E i \in 1..Len(l) :
        /\ l[i] = "DEBUG"
        /\ LET d == SkipSp(l, i + 1) IN
           /\ d <= Len(l) /\ l[d] = "-"
           /\ LET r == SkipSp(l, d + 1) IN
              /\ r <= Len(l) /\ l[r] = "Reading:"
              /\ k = SkipSp(l, r + 1)
              /\ k <= Len(l) /\ l[k] \in MdNames }

\* re.search(r"Doc file '([^']+\.md)'", l): the index of the quoted name
DocFileMatches(l) ==
  { k \in 2..Len(l) : l[k - 1] = "Docfile" /\ l[k] \in QuotedMd }

Min(S) == CHOOSE x \in S : \A y \in S : x <= y

\* the file a preceding line names, <<>> when it carries no hint (source lines
\* 199-211: Reading, then breadcrumb, then Doc file)
FileHint(l) ==
  IF ReadingMatches(l) # {} THEN <<l[Min(ReadingMatches(l))]>>
  ELSE IF Contains(l, "breadcrumb") THEN <<"p.md">>
  ELSE IF DocFileMatches(l) # {} THEN <<Unquote(l[Min(DocFileMatches(l))])>>
  ELSE <<>>

\* range(start - 1, max(-1, start - 50), -1) ends before start - LookbackStop
LookbackStop == 50

\* the backward loop from index j down to index stop
RECURSIVE FindFile(_, _, _)
FindFile(lines, j, stop) ==
  IF j < stop \/ j < 1 THEN <<>>
  ELSE IF FileHint(lines[j]) # <<>> THEN FileHint(lines[j])
  ELSE FindFile(lines, j - 1, stop)

\* the three stop conditions of the forward scan (source lines 239-244)
IsStopLine(stripped) ==
  \/ StartsWithSevDash(stripped, {"INFO", "DEBUG", "WARNING", "ERROR"})
  \/ StartsWithDate(stripped)
  \/ (stripped # <<>> /\ Head(stripped) = "[stderr]")

FrameTokens == {"frame", "frame2"}
FrameSession(tok) == IF tok = "frame" THEN "s" ELSE "t"
FrameLine(tok) == IF tok = "frame" THEN "3" ELSE "7"

\* re.search(r'File "<code block: session ([^;]+); n(\d+)>", line (\d+)', s)
HasFrame(s) == \E i \in 1..Len(s) : s[i] \in FrameTokens
FirstFrame(s) == s[Min({i \in 1..Len(s) : s[i] \in FrameTokens})]

ScanState(i, in_code, in_output, code_lines, output_lines, session_info, line_number) ==
  [i |-> i, in_code |-> in_code, in_output |-> in_output,
   code_lines |-> code_lines, output_lines |-> output_lines,
   session_info |-> session_info, line_number |-> line_number]

\* the while loop of source lines 221-258, from the state st
RECURSIVE ForwardScan_consumes(_, _)
ForwardScan_consumes(lines, st) ==
  IF st.i > Len(lines) THEN st
  ELSE
    LET line == lines[st.i]
        stripped == strip(line)
    IN
    IF stripped = <<"codeis">> THEN
      ForwardScan_consumes(lines, [st EXCEPT !.in_code = TRUE, !.in_output = FALSE, !.i = @ + 1])
    ELSE IF stripped = <<"outis">> THEN
      ForwardScan_consumes(lines, [st EXCEPT !.in_code = FALSE, !.in_output = TRUE, !.i = @ + 1])
    ELSE IF IsStopLine(stripped) THEN [st EXCEPT !.i = @ + 1]
    ELSE IF st.in_code /\ stripped # <<>> THEN
      ForwardScan_consumes(lines, [st EXCEPT !.code_lines = Append(@, rstrip(line)), !.i = @ + 1])
    ELSE IF st.in_output /\ stripped # <<>> THEN
      ForwardScan_consumes(lines,
        [st EXCEPT !.output_lines = Append(@, rstrip(line)),
                   !.session_info = IF HasFrame(stripped)
                                      THEN FrameSession(FirstFrame(stripped)) ELSE @,
                   !.line_number = IF HasFrame(stripped)
                                     THEN FrameLine(FirstFrame(stripped)) ELSE @,
                   !.i = @ + 1])
    ELSE ForwardScan_consumes(lines, [st EXCEPT !.i = @ + 1])

\* "Output is:" that leaves in_code as it was
RECURSIVE ForwardScan_sticky_code(_, _)
ForwardScan_sticky_code(lines, st) ==
  IF st.i > Len(lines) THEN st
  ELSE
    LET line == lines[st.i]
        stripped == strip(line)
    IN
    IF stripped = <<"codeis">> THEN
      ForwardScan_sticky_code(lines, [st EXCEPT !.in_code = TRUE, !.in_output = FALSE, !.i = @ + 1])
    ELSE IF stripped = <<"outis">> THEN
      ForwardScan_sticky_code(lines, [st EXCEPT !.in_output = TRUE, !.i = @ + 1])
    ELSE IF IsStopLine(stripped) THEN st
    ELSE IF st.in_code /\ stripped # <<>> THEN
      ForwardScan_sticky_code(lines, [st EXCEPT !.code_lines = Append(@, rstrip(line)), !.i = @ + 1])
    ELSE IF st.in_output /\ stripped # <<>> THEN
      ForwardScan_sticky_code(lines,
        [st EXCEPT !.output_lines = Append(@, rstrip(line)),
                   !.session_info = IF HasFrame(stripped)
                                      THEN FrameSession(FirstFrame(stripped)) ELSE @,
                   !.line_number = IF HasFrame(stripped)
                                     THEN FrameLine(FirstFrame(stripped)) ELSE @,
                   !.i = @ + 1])
    ELSE ForwardScan_sticky_code(lines, [st EXCEPT !.i = @ + 1])

\* the while loop of source lines 221-258, from the state st
RECURSIVE ForwardScan(_, _)
ForwardScan(lines, st) ==
  IF st.i > Len(lines) THEN st
  ELSE
    LET line == lines[st.i]
        stripped == strip(line)
    IN
    IF stripped = <<"codeis">> THEN
      ForwardScan(lines, [st EXCEPT !.in_code = TRUE, !.in_output = FALSE, !.i = @ + 1])
    ELSE IF stripped = <<"outis">> THEN
      ForwardScan(lines, [st EXCEPT !.in_code = FALSE, !.in_output = TRUE, !.i = @ + 1])
    ELSE IF IsStopLine(stripped) THEN st
    ELSE IF st.in_code /\ stripped # <<>> THEN
      ForwardScan(lines, [st EXCEPT !.code_lines = Append(@, rstrip(line)), !.i = @ + 1])
    ELSE IF st.in_output /\ stripped # <<>> THEN
      ForwardScan(lines,
        [st EXCEPT !.output_lines = Append(@, rstrip(line)),
                   !.session_info = IF HasFrame(stripped)
                                      THEN FrameSession(FirstFrame(stripped)) ELSE @,
                   !.line_number = IF HasFrame(stripped)
                                     THEN FrameLine(FirstFrame(stripped)) ELSE @,
                   !.i = @ + 1])
    ELSE ForwardScan(lines, [st EXCEPT !.i = @ + 1])

ErrorColonTokens == {"ValueError:", "KeyError:"}
ExceptionColonTokens == {"Exception:"}

\* "Error:" in line or "Exception:" in line
HasErrorOrException(l) ==
  \E i \in 1..Len(l) : l[i] \in ErrorColonTokens \cup ExceptionColonTokens

\* line.startswith("File ")
StartsWithFile(l) == l # <<>> /\ Head(l) \in {"File"} \cup FrameTokens

CodeExecutionFailed == <<"Code execution failed">>

\* the loop left after its first iteration
SelectErrorMsg_last_only(output_lines, k) ==
  IF k < 1 THEN CodeExecutionFailed
  ELSE LET line == strip(output_lines[k]) IN
       IF line # <<>> /\ HasErrorOrException(line) /\ ~StartsWithFile(line)
         THEN line
         ELSE CodeExecutionFailed

\* the loop over reversed(output_lines) of source lines 261-266, from index k
RECURSIVE SelectErrorMsg(_, _)
SelectErrorMsg(output_lines, k) ==
  IF k < 1 THEN CodeExecutionFailed
  ELSE LET line == strip(output_lines[k]) IN
       IF line # <<>> /\ HasErrorOrException(line) /\ ~StartsWithFile(line)
         THEN line
         ELSE SelectErrorMsg(output_lines, k - 1)

\* f"session '{session_info}'" and f"line {line_number}"
SessionSegment(session_info) ==
  IF session_info = "s" THEN "session 's'" ELSE "session 't'"
LineSegment(line_number) == IF line_number = "3" THEN "line 3" ELSE "line 7"

\* the line segment put before the session segment
LocationParts_line_first(file_path, session_info, line_number) ==
  file_path
    \o (IF line_number # "None" THEN <<LineSegment(line_number)>> ELSE <<>>)
    \o (IF session_info # "None" THEN <<SessionSegment(session_info)>> ELSE <<>>)

\* location_parts of source lines 269-275; the joined string is the sequence
LocationParts(file_path, session_info, line_number) ==
  file_path
    \o (IF session_info # "None" THEN <<SessionSegment(session_info)>> ELSE <<>>)
    \o (IF line_number # "None" THEN <<LineSegment(line_number)>> ELSE <<>>)

Issue(level, source, message, file, code, output) ==
  [level |-> level, source |-> source, message |-> message,
   file |-> file, code |-> code, output |-> output]

parse_markdown_exec_issue_from_start(lines, start, level) ==
  LET file_path == FindFile(lines, start - 1, start - LookbackStop + 1)
      st == ForwardScan(lines,
              ScanState(start, FALSE, FALSE, <<>>, <<>>, "None", "None"))
      error_msg == SelectErrorMsg(st.output_lines, Len(st.output_lines))
  IN [issue |-> Issue(level, "markdown_exec", error_msg,
                      LocationParts(file_path, st.session_info, st.line_number),
                      st.code_lines, st.output_lines),
      end |-> st.i]

\* returns the Issue and the end index
parse_markdown_exec_issue(lines, start, level) ==
  LET file_path == FindFile(lines, start - 1, start - LookbackStop + 1)
      st == ForwardScan(lines,
              ScanState(start + 1, FALSE, FALSE, <<>>, <<>>, "None", "None"))
      error_msg == SelectErrorMsg(st.output_lines, Len(st.output_lines))
  IN [issue |-> Issue(level, "markdown_exec", error_msg,
                      LocationParts(file_path, st.session_info, st.line_number),
                      st.code_lines, st.output_lines),
      end |-> st.i]

\* ------------------------------------------------------- whole-buffer parser

\* "WARNING" in line, "ERROR" in line, "markdown_exec" in line
HasWarningText(line) == Contains(line, "WARNING")
HasErrorText(line) == Contains(line, "ERROR")
HasMarkdownExec(line) == Contains(line, "markdown_exec:")

\* re.sub(r"^\[stderr\]\s*", "", m)
SubStderr(m) == IF m # <<>> /\ Head(m) = "[stderr]" THEN lstrip(Tail(m)) ELSE m

\* re.sub(r"^\d{4}-\d{2}-\d{2}.*?-\s*", "", m): through the first dash after the date
SubDate(m) ==
  IF StartsWithDate(m) /\ \E i \in 2..Len(m) : m[i] = "-"
    THEN LET d == Min({i \in 2..Len(m) : m[i] = "-"})
         IN lstrip(SubSeq(m, d + 1, Len(m)))
    ELSE m

SubSeverity_keeps_dash(m) ==
  IF m # <<>> /\ Head(m) \in {"WARNING", "ERROR"} THEN lstrip(Tail(m)) ELSE m

\* re.sub(r"^(WARNING|ERROR)\s*-?\s*", "", m)
SubSeverity(m) ==
  IF m # <<>> /\ Head(m) \in {"WARNING", "ERROR"}
    THEN LET rest == lstrip(Tail(m))
         IN IF rest # <<>> /\ Head(rest) = "-" THEN lstrip(Tail(rest)) ELSE rest
    ELSE m

RegularMessage_keeps_stderr(line) == SubSeverity(SubDate(line))

\* the message of a regular warning/error line (source lines 169-172)
RegularMessage(line) == SubSeverity(SubDate(SubStderr(line)))

\* the file path quoted in the message (source lines 176-180), <<>> when none
MessageFile(message) ==
  IF \E i \in 1..Len(message) : message[i] \in QuotedMd
    THEN <<Unquote(message[Min({i \in 1..Len(message) : message[i] \in QuotedMd})])>>
  ELSE IF \E i \in 1..Len(message) : message[i] \in DoubleQuotedMd
    THEN <<Unquote(message[Min({i \in 1..Len(message) : message[i] \in DoubleQuotedMd})])>>
  ELSE <<>>

\* stripped.startswith("raise ") or stripped.startswith("File ")
LooksLikeTraceback(stripped) ==
  stripped # <<>> /\ (Head(stripped) = "raise" \/ StartsWithFile(stripped))

\* the while loop of parse_mkdocs_output from index i
RECURSIVE ParseLoop(_, _, _, _)
ParseLoop(lines, i, skip_until, issues) ==
  IF i > Len(lines) THEN issues
  ELSE IF i < skip_until THEN ParseLoop(lines, i + 1, skip_until, issues)
  ELSE
    LET line == lines[i] IN
    IF HasWarningText(line) \/ HasErrorText(line) THEN
      LET level == IF HasErrorText(line) THEN "ERROR" ELSE "WARNING" IN
      IF HasMarkdownExec(line) THEN
        LET r == parse_markdown_exec_issue(lines, i, level)
        IN ParseLoop(lines, r.end, r.end, Append(issues, r.issue))
      ELSE IF LooksLikeTraceback(strip(line)) THEN
        ParseLoop(lines, i + 1, skip_until, issues)
      ELSE
        LET message == RegularMessage(line) IN
        IF strip(message) # <<>>
          THEN ParseLoop(lines, i + 1, skip_until,
                 Append(issues, Issue(level, "mkdocs", strip(message),
                                      MessageFile(message), <<>>, <<>>)))
          ELSE ParseLoop(lines, i + 1, skip_until, issues)
    ELSE ParseLoop(lines, i + 1, skip_until, issues)

parse_mkdocs_output(lines) == ParseLoop(lines, 1, 0, <<>>)

\* the inner loop of is_in_multiline_block: a closing log line at index >= j
BlockClosedAfter(lines, j) ==
  \E k \in j..Len(lines) :
    LET check_line == strip(lines[k]) IN
      /\ check_line # <<>>
      /\ (\/ StartsWithSevDash(check_line, {"INFO", "WARNING", "ERROR"})
          \/ StartsWithDateThenSev(check_line))

IsBlockHeader(line) ==
  HasMarkdownExec(line) /\ (HasWarningText(line) \/ HasErrorText(line))

is_in_multiline_block(lines) ==
  IF \E i \in 1..Len(lines) : IsBlockHeader(lines[i])
    THEN LET i == CHOOSE i \in 1..Len(lines) :
                    /\ IsBlockHeader(lines[i])
                    /\ \A k \in (i + 1)..Len(lines) : ~IsBlockHeader(lines[k])
         IN ~BlockClosedAfter(lines, i + 1)
    ELSE FALSE

\* ------------------------------------------------------------------ state

VARIABLES
  arg,                \* the arguments of the function under check
  ret,                \* its return value
  pc,                 \* "idle", "call" (before the call), "done" (after it)
  buffer,             \* StreamingProcessor.buffer, the RollingBuffer
  scan_pos,           \* index in buffer of the first line not yet extracted
  all_issues,         \* the current cycle's accepted issues
  seen_issues,        \* the Deduplicator's identity keys of the current cycle
  all_info_messages,  \* the current cycle's InfoMessages
  build_info,         \* the BuildInfo of the current cycle
  prev_line,          \* the line before the one being processed
  captured,           \* the issues on_issue was called with, in call order
  result,             \* what finalize() returned, <<>> before it is called
  todo,               \* the lines the producer still holds of the current chunk
  nchunks,            \* how many chunks the producer has started
  cycle,              \* how many rebuild_started boundaries were processed
  accepted_log,       \* every acceptance so far: [issue, cycle]
  received,           \* every line process_line was called with, in order
  errors_only,        \* the errors_only flag the run was started with
  saw_build_output,   \* the processor saw recognizable build-tool output
  raw_buffer,         \* the raw lines the processor keeps for the caller
  in_serve_mode,      \* the processor saw the server start
  saw_server_error,   \* the processor saw error text from the running server
  error_lines,        \* those error lines
  build_output_shown, \* run_streaming_mode: the cycle's flush has run
  issues_printed,     \* run_streaming_mode: issues printed in this cycle
  server_url_printed, \* run_streaming_mode: the server URL was printed
  stderr_hint_printed, \* run_streaming_mode: the stderr hint was printed
  pending_issues,     \* run_streaming_mode: issues queued by on_issue
  printed,            \* what was written to the console, as events in order
  exit_code,          \* the return value of the run, <<>> while it runs
  server,             \* the DocsFilterServer's attributes
  state_file,         \* the persisted snapshot, <<>> when there is no file
  last_call,          \* the last server call: number, name, return value, response
  id_log,             \* every [issue, id] a tool call has exposed
  refresh_log,        \* every refresh that returned True and every rebuild
                      \* that answered with issues: [call, timestamp]
  interactive,        \* run_interactive_mode: its locals, threads and terminal
  wrap                \* run_wrap_mode: the child process and sys.stdin

fnvars == <<arg, ret, pc>>
procvars == <<buffer, scan_pos, all_issues, seen_issues, all_info_messages,
              build_info, prev_line, captured, result, todo, nchunks, cycle,
              accepted_log, received, errors_only, saw_build_output, raw_buffer,
              in_serve_mode, saw_server_error, error_lines, build_output_shown,
              issues_printed, server_url_printed, stderr_hint_printed,
              pending_issues, printed, exit_code>>
vars == <<arg, ret, pc, buffer, scan_pos, all_issues, seen_issues,
          all_info_messages, build_info, prev_line, captured, result, todo,
          nchunks, cycle, accepted_log, received, errors_only, saw_build_output,
          raw_buffer, in_serve_mode, saw_server_error, error_lines,
          build_output_shown, issues_printed, server_url_printed,
          stderr_hint_printed, pending_issues, printed, exit_code, server,
          state_file, last_call, id_log, refresh_log, interactive, wrap>>

\* the query server and the snapshot file it reads
srvvars == <<server, state_file, last_call, id_log, refresh_log>>

\* the interactive run and the wrapped command
modevars == <<interactive, wrap>>

\* the locals of run_streaming_mode and its outcome
uivars == <<build_output_shown, issues_printed, server_url_printed,
            stderr_hint_printed, pending_issues, printed, exit_code>>

\* BuildInfo() of source lines 32-38, with the reported warning count of the spec
EmptyBuildInfo ==
  [server_url |-> <<>>, build_dir |-> <<>>, build_time |-> <<>>,
   reported_warning_count |-> <<>>]

\* DocsFilterServer.__init__ (mcp_server.py lines 65-81)
NewServer(watch_mode) ==
  [project_dir |-> <<>>,
   pipe_mode |-> FALSE,
   watch_mode |-> watch_mode,
   issues |-> <<>>,
   info_messages |-> <<>>,
   build_info |-> EmptyBuildInfo,
   raw_output |-> <<>>,
   issue_ids |-> <<>>,
   last_state_timestamp |-> 0,
   build_status |-> "complete",
   build_started_at |-> <<>>]

NoCall == [n |-> 0, name |-> "none", ret |-> FALSE, resp |-> <<>>]

\* no query server is used
ServerIdle ==
  /\ server = NewServer(FALSE)
  /\ state_file = <<>>
  /\ last_call = NoCall
  /\ id_log = {}
  /\ refresh_log = <<>>

\* neither run_interactive_mode nor run_wrap_mode is running
ModeIdle == interactive = <<>> /\ wrap = <<>>

\* run_streaming_mode before its first line (source lines 141-185)
UiInit ==
  /\ build_output_shown = FALSE
  /\ issues_printed = 0
  /\ server_url_printed = FALSE
  /\ stderr_hint_printed = FALSE
  /\ pending_issues = <<>>
  /\ printed = <<>>
  /\ exit_code = <<>>

\* the processor right after construction, whatever its errors_only flag
ProcessorNew ==
  /\ buffer = <<>>
  /\ scan_pos = 1
  /\ all_issues = <<>>
  /\ seen_issues = {}
  /\ all_info_messages = <<>>
  /\ build_info = EmptyBuildInfo
  /\ prev_line = NoLine
  /\ captured = <<>>
  /\ result = <<>>
  /\ todo = <<>>
  /\ nchunks = 0
  /\ cycle = 0
  /\ accepted_log = <<>>
  /\ received = <<>>
  /\ saw_build_output = FALSE
  /\ raw_buffer = <<>>
  /\ in_serve_mode = FALSE
  /\ saw_server_error = FALSE
  /\ error_lines = <<>>
  /\ UiInit

\* StreamingProcessor(console, verbose=False, errors_only=False)
ProcessorInit == ProcessorNew /\ errors_only = FALSE /\ ServerIdle /\ ModeIdle

FnIdle == arg = <<>> /\ ret = <<>> /\ pc = "idle"

\* all sequences over S of length lo..hi
SeqsOf(S, lo, hi) == UNION {[1..n -> S] : n \in lo..hi}

\* ------------------------------------- specification: the Boundary Classifier

MaxTokens == 3

BoundaryTokens ==
  {"sp", "INFO", "WARNING", "-", "date", "built1", "serving", "detected",
   "reloading", "building", "x"}

BoundaryLines == SeqsOf(BoundaryTokens, 0, MaxTokens)

PrevLines == {NoLine, SomeLine(<<>>), SomeLine(<<"sp">>), SomeLine(<<"x">>)}

InitBoundary ==
  /\ arg \in [line : BoundaryLines, prev_line : PrevLines]
  /\ ret = <<>>
  /\ pc = "call"
  /\ ProcessorInit

CallDetectChunkBoundary ==
  /\ pc = "call"
  /\ ret' = detect_chunk_boundary(arg.line, arg.prev_line)
  /\ pc' = "done"
  /\ UNCHANGED <<arg, procvars, srvvars, modevars>>

SpecBoundary == InitBoundary /\ [][CallDetectChunkBoundary]_vars

\* --------------------------------------- specification: the Block Reconstructor

MaxSection == 2
MaxLen == 3

SectionLines == {<<>>, <<"sp", "x">>, <<"y", "sp">>, <<"sp", "ValueError:">>}
LogLines ==
  {<<"INFO", "-", "z">>, <<"DEBUG", "-", "z">>, <<"date", "x">>, <<"[stderr]", "x">>}
HeaderLine == <<"WARNING", "-", "markdown_exec:">>
ReadingLine == <<"DEBUG", "-", "Reading:", "a.md">>

\* header, "Code block is:" section, "Output is:" section, a log line
RecordInputs ==
  { [lines |-> prefix \o <<HeaderLine>> \o pre \o <<<<"codeis">>>> \o code
                 \o <<<<"outis">>>> \o out \o <<log>>,
     start |-> Len(prefix) + 1,
     level |-> "WARNING"] :
      prefix \in {<<>>, <<ReadingLine>>},
      pre \in {<<>>, <<<<>>>>},
      code \in SeqsOf(SectionLines, 0, MaxSection),
      out \in SeqsOf(SectionLines, 0, MaxSection),
      log \in LogLines }

AnyLines ==
  {<<>>, <<"codeis">>, <<"outis">>, <<"sp", "x">>, HeaderLine} \cup LogLines

AnyInputs ==
  { [lines |-> ls, start |-> st, level |-> lv] :
      ls \in SeqsOf(AnyLines, 1, MaxLen), st \in 1..MaxLen, lv \in Level }

MaxOutput == 3

\* traceback text, a frame, a raise statement, the error line, a warning of
\* the interpreter, a blank line
OutputLines ==
  {<<>>, <<"sp", "x">>, <<"sp", "frame">>, <<"sp", "raise">>,
   <<"sp", "ValueError:">>, <<"sp", "ValueError:", "sp">>,
   <<"sp", "DeprecationWarning:">>, <<"sp", "frame2">>}

\* a record whose output section is any sequence of 1..MaxOutput output lines
OutputInputs ==
  { [lines |-> prefix \o <<HeaderLine, <<"codeis">>, <<"sp", "raise">>, <<"outis">>>>
                 \o out \o << <<"INFO", "-", "z">> >>,
     start |-> Len(prefix) + 1,
     level |-> "WARNING"] :
      prefix \in {<<>>, <<ReadingLine>>},
      out \in SeqsOf(OutputLines, 1, MaxOutput) }

\* how far past the lookback window the farthest hint line may stand
MaxBeyond == 1

FillerLine == <<"INFO", "-", "z">>
DocFileBLine == <<"INFO", "-", "Docfile", "'b.md'">>
BreadcrumbLine == <<"DEBUG", "-", "breadcrumb">>
NearReadingLine == <<"DEBUG", "-", "Reading:", "b.md">>

\* a line that may carry a hint, n filler lines, possibly a nearer hint, the
\* header of a record without sections, a log line
LookbackInputs ==
  { [lines |-> <<far>> \o [k \in 1..n |-> FillerLine] \o near
                 \o <<HeaderLine, FillerLine>>,
     start |-> n + Len(near) + 2,
     level |-> "WARNING"] :
      far \in {ReadingLine, DocFileBLine, BreadcrumbLine, FillerLine},
      n \in (LookbackStop - 3)..(LookbackStop - 1 + MaxBeyond),
      near \in {<<>>, <<NearReadingLine>>, <<FillerLine>>} }

MaxBody == 5

BodyLines == {<<"codeis">>, <<"outis">>, <<"sp", "x">>, <<"y", "sp">>, <<>>}

\* a header followed by section markers, content and blank lines in any order
SectionInputs ==
  { [lines |-> <<HeaderLine>> \o body, start |-> 1, level |-> "WARNING"] :
      body \in SeqsOf(BodyLines, 0, MaxBody) }

InitParse ==
  /\ arg \in RecordInputs \cup OutputInputs \cup LookbackInputs \cup SectionInputs
               \cup {a \in AnyInputs : a.start <= Len(a.lines)}
  /\ ret = <<>>
  /\ pc = "call"
  /\ ProcessorInit

CallParseMarkdownExecIssue ==
  /\ pc = "call"
  /\ ret' = parse_markdown_exec_issue(arg.lines, arg.start, arg.level)
  /\ pc' = "done"
  /\ UNCHANGED <<arg, procvars, srvvars, modevars>>

SpecParse == InitParse /\ [][CallParseMarkdownExecIssue]_vars

\* ------------------------------------------------------- claims C7 and C8

BlankPrev(p) == p # NoLine /\ strip(p[1]) = <<>>

\* the line, surrounding whitespace removed, begins a severity-tagged log line:
\* bare (INFO/WARNING/ERROR and a dash) or prefixed by a date stamp
BeginsSeverityTagged(line) ==
  LET s == strip(line) IN
    /\ s # <<>>
    /\ \/ /\ Head(s) \in {"INFO", "WARNING", "ERROR"}
          /\ \E j \in 2..Len(s) : s[j] = "-" /\ \A k \in 2..(j - 1) : s[k] = "sp"
       \/ /\ Head(s) = "date"
          /\ \E j \in 2..Len(s) : s[j] \in {"INFO", "WARNING", "ERROR"}

RuleBuildComplete(line) == \E i \in 1..Len(line) : line[i] \in BuiltTokens
RuleServerStarted(line) ==
  \E i \in 1..Len(line) : line[i] \in {"serving", "serving2"}
RuleRebuildStarted(line) ==
  \/ \E i \in 1..Len(line) : line[i] \in {"detected", "reloading"}
  \/ /\ strip(line) # <<>> /\ Head(strip(line)) = "date"
     /\ \E i \in 1..Len(line) : line[i] \in {"building", "todir", "todir2"}
RuleErrorBlockEnd(line, p) == BlankPrev(p) /\ BeginsSeverityTagged(line)

\* C7: detect_chunk_boundary returns exactly one of the five labels for every
\* input, namely the label of the first rule that matches in the order
\* build_complete, server_started, rebuild_started, error_block_end, none.
C7_FirstMatchWins ==
  pc = "done" =>
    /\ ret \in ChunkBoundary
    /\ RuleBuildComplete(arg.line) => ret = "build_complete"
    /\ (~RuleBuildComplete(arg.line) /\ RuleServerStarted(arg.line))
         => ret = "server_started"
    /\ (~RuleBuildComplete(arg.line) /\ ~RuleServerStarted(arg.line)
          /\ RuleRebuildStarted(arg.line)) => ret = "rebuild_started"
    /\ (~RuleBuildComplete(arg.line) /\ ~RuleServerStarted(arg.line)
          /\ ~RuleRebuildStarted(arg.line)
          /\ RuleErrorBlockEnd(arg.line, arg.prev_line)) => ret = "error_block_end"
    /\ (~RuleBuildComplete(arg.line) /\ ~RuleServerStarted(arg.line)
          /\ ~RuleRebuildStarted(arg.line)
          /\ ~RuleErrorBlockEnd(arg.line, arg.prev_line)) => ret = "none"

\* a line with both the built phrase and the file-change phrase was classified
C7_Witness ==
  /\ pc = "done"
  /\ RuleBuildComplete(arg.line)
  /\ \E i \in 1..Len(arg.line) : arg.line[i] \in {"detected", "reloading"}
  /\ ret = "build_complete"

\* C8: error_block_end is returned only when prev_line is supplied and blank
\* and the line begins a severity-tagged log line; with prev_line absent or
\* non-blank the result is never error_block_end.
C8_ErrorBlockEndNeedsBlankPrev ==
  pc = "done" =>
    /\ ret = "error_block_end"
         => (BlankPrev(arg.prev_line) /\ BeginsSeverityTagged(arg.line))
    /\ (arg.prev_line = NoLine \/ strip(arg.prev_line[1]) # <<>>)
         => ret # "error_block_end"

\* a whitespace-only previous line and a bare severity line gave error_block_end
C8_Witness ==
  /\ pc = "done"
  /\ arg.prev_line = SomeLine(<<"sp">>)
  /\ ret = "error_block_end"

\* ------------------------------------------------------ claims C9 and C10

\* a top-level log line: severity-tagged, date-stamped or [stderr]-tagged
TopLevelLogLine(l) ==
  LET s == strip(l) IN
    /\ s # <<>>
    /\ \/ Head(s) \in {"date", "[stderr]"}
       \/ /\ Head(s) \in {"INFO", "DEBUG", "WARNING", "ERROR"}
          /\ \E j \in 2..Len(s) : s[j] = "-" /\ \A k \in 2..(j - 1) : s[k] = "sp"

IsMarker(l, m) == strip(l) = <<m>>

\* the non-blank lines of lines[lo..hi], trailing whitespace removed
RECURSIVE NonBlankBetween(_, _, _)
NonBlankBetween(lines, lo, hi) ==
  IF lo > hi THEN <<>>
  ELSE (IF strip(lines[lo]) # <<>> THEN <<rstrip(lines[lo])>> ELSE <<>>)
         \o NonBlankBetween(lines, lo + 1, hi)

\* header at start, then one "Code block is:" marker at c, one "Output is:"
\* marker at o, then the first top-level log line at e
RecordShape(lines, start, c, o, e) ==
  /\ start < c /\ c < o /\ o < e /\ e <= Len(lines)
  /\ TopLevelLogLine(lines[e])
  /\ \A k \in (start + 1)..(e - 1) : ~TopLevelLogLine(lines[k])
  /\ \A k \in (start + 1)..(e - 1) : IsMarker(lines[k], "codeis") <=> k = c
  /\ \A k \in (start + 1)..(e - 1) : IsMarker(lines[k], "outis") <=> k = o

\* C9: for a header followed by a "Code block is:" section, an "Output is:"
\* section and a top-level log line, the resume index is the index of that log
\* line, and code / output hold exactly the non-blank lines between the
\* respective marker and the next marker or the log line (as the source stores
\* them, without trailing whitespace).
C9_RecordBoundaryPrecision ==
  pc = "done" /\ "lines" \in DOMAIN arg =>
    \A c, o, e \in 1..Len(arg.lines) :
      RecordShape(arg.lines, arg.start, c, o, e) =>
        /\ ret.end = e
        /\ ret.issue.code = NonBlankBetween(arg.lines, c + 1, o - 1)
        /\ ret.issue.output = NonBlankBetween(arg.lines, o + 1, e - 1)

\* a record with a blank line inside a non-empty code section and a non-empty
\* output section was reconstructed
C9_Witness ==
  /\ pc = "done" /\ "lines" \in DOMAIN arg
  /\ \E c, o, e \in 1..Len(arg.lines) :
       /\ RecordShape(arg.lines, arg.start, c, o, e)
       /\ \E k \in (c + 1)..(o - 1) : strip(arg.lines[k]) = <<>>
       /\ ret.issue.code # <<>> /\ ret.issue.output # <<>>
       /\ ret.issue.code # ret.issue.output
       /\ ret.end = e

\* C10: the end index lies after start and at most one past the last line, and
\* if it is the index of a line, that line is a top-level log line.
C10_NoBacktracking ==
  pc = "done" /\ "lines" \in DOMAIN arg =>
    /\ arg.start < ret.end
    /\ ret.end <= Len(arg.lines) + 1
    /\ ret.end <= Len(arg.lines) => TopLevelLogLine(arg.lines[ret.end])

\* a scan that started at a later header and stopped at a log line before the end
C10_Witness ==
  /\ pc = "done" /\ "lines" \in DOMAIN arg
  /\ arg.start > 1
  /\ ret.end <= Len(arg.lines)
  /\ ret.end > arg.start + 1

\* ------------------------------------------------------------- claim C11

\* a line that reads "ValueError: message" between optional whitespace
IsValueErrorLine(l) == strip(l) = <<"ValueError:">>

\* a line without any "...Error:" or "...Exception:" text
BenignLine(l) ==
  \A i \in 1..Len(l) : l[i] \notin ErrorColonTokens \cup ExceptionColonTokens

\* C11: when the output section of an embedded-code failure holds exactly one
\* "ValueError: message" line and otherwise benign lines, the reconstructed
\* Issue's message is that line, stripped, wherever it stands in the section.
C11_ReverseMessageSelection ==
  pc = "done" /\ "lines" \in DOMAIN arg =>
    \A c, o, e \in 1..Len(arg.lines) :
      RecordShape(arg.lines, arg.start, c, o, e) =>
        \A k \in (o + 1)..(e - 1) :
          (/\ IsValueErrorLine(arg.lines[k])
           /\ \A m \in (o + 1)..(e - 1) : m # k => BenignLine(arg.lines[m]))
            => ret.issue.message = strip(arg.lines[k])

\* the error line came first of three output lines, two benign lines after it
C11_Witness ==
  /\ pc = "done" /\ "lines" \in DOMAIN arg
  /\ \E c, o, e \in 1..Len(arg.lines) :
       /\ RecordShape(arg.lines, arg.start, c, o, e)
       /\ e = o + 4
       /\ IsValueErrorLine(arg.lines[o + 1])
       /\ strip(arg.lines[o + 2]) = <<"frame">>
       /\ strip(arg.lines[o + 3]) = <<"x">>
  /\ ret.issue.message = <<"ValueError:">>

\* ------------------------------------------------------------ build info

ServerUrlOf(tok) ==
  IF tok = "serving" THEN "http://127.0.0.1:8000/" ELSE "http://localhost:8001/"
DirOf(tok) == IF tok = "todir" THEN "/site" ELSE "/out"
BuildTimeOf(tok) == IF tok = "built1" THEN "1.00" ELSE "0.50"

\* a field is set only while it is still None
UpdateBuildInfo_first_wins(info, line) ==
  LET url == IF MatchesServing(line) /\ info.server_url = <<>>
               THEN <<ServerUrlOf(line[Min({i \in 1..Len(line) : line[i] \in ServingTokens})])>>
               ELSE info.server_url
      time == IF MatchesBuilt(line) /\ info.build_time = <<>>
                THEN <<BuildTimeOf(line[Min({i \in 1..Len(line) : line[i] \in BuiltTokens})])>>
                ELSE info.build_time
      dir == IF (\E i \in 1..Len(line) : line[i] \in DirTokens) /\ info.build_dir = <<>>
               THEN LET k == Min({i \in 1..Len(line) : line[i] \in DirTokens})
                    IN strip(<<DirOf(line[k])>> \o SubSeq(line, k + 1, Len(line)))
               ELSE info.build_dir
  IN [info EXCEPT !.server_url = url, !.build_time = time, !.build_dir = dir]

\* one iteration of the loop of extract_build_info: the fields line overwrites
UpdateBuildInfo(info, line) ==
  LET url == IF MatchesServing(line)
               THEN <<ServerUrlOf(line[Min({i \in 1..Len(line) : line[i] \in ServingTokens})])>>
               ELSE info.server_url
      time == IF MatchesBuilt(line)
                THEN <<BuildTimeOf(line[Min({i \in 1..Len(line) : line[i] \in BuiltTokens})])>>
                ELSE info.build_time
      dir == IF \E i \in 1..Len(line) : line[i] \in DirTokens
               THEN LET k == Min({i \in 1..Len(line) : line[i] \in DirTokens})
                    IN strip(<<DirOf(line[k])>> \o SubSeq(line, k + 1, Len(line)))
               ELSE info.build_dir
  IN [info EXCEPT !.server_url = url, !.build_time = time, !.build_dir = dir]

RECURSIVE ExtractLoop(_, _, _)
ExtractLoop(lines, i, info) ==
  IF i > Len(lines) THEN info
  ELSE ExtractLoop(lines, i + 1, UpdateBuildInfo(info, lines[i]))

extract_build_info(lines) == ExtractLoop(lines, 1, EmptyBuildInfo)

\* ------------------------------------------------------- Stream Processor

\* the RollingBuffer's cap
BUFFER_MAX_SIZE == 200

IssueKey_with_file(issue) == <<issue.level, issue.source, issue.message, issue.file>>

\* the Deduplicator's identity key
IssueKey(issue) == <<issue.level, issue.source, issue.message>>

\* the summary line of the build tool that states its own warning count
ReportedWarningCount(line, old) == IF Contains(line, "warned2") THEN <<2>> ELSE old

\* the informational findings of one line
parse_info_messages_line(line) ==
  IF Contains(line, "brokenlink")
    THEN <<[category |-> "broken_link", file |-> MessageFile(line)]>>
    ELSE <<>>

\* the cycle-scoped results and the callback's record
Acc(issues, seen, calls, log) ==
  [issues |-> issues, seen |-> seen, calls |-> calls, log |-> log]

Accept_prepends(acc, issue, cyc) ==
  IF errors_only /\ issue.level = "WARNING" THEN acc
  ELSE IF IssueKey(issue) \in acc.seen THEN acc
  ELSE Acc(<<issue>> \o acc.issues,
           acc.seen \cup {IssueKey(issue)},
           Append(acc.calls, issue),
           Append(acc.log, [issue |-> issue, cycle |-> cyc]))

\* the errors_only filter, Deduplicator.accept, the accumulation and the
\* on_issue call for one issue
Accept(acc, issue, cyc) ==
  IF errors_only /\ issue.level = "WARNING" THEN acc
  ELSE IF IssueKey(issue) \in acc.seen THEN acc
  ELSE Acc(Append(acc.issues, issue),
           acc.seen \cup {IssueKey(issue)},
           Append(acc.calls, issue),
           Append(acc.log, [issue |-> issue, cycle |-> cyc]))

RECURSIVE AcceptAll(_, _, _, _)
AcceptAll(acc, found, k, cyc) ==
  IF k > Len(found) THEN acc
  ELSE AcceptAll(Accept(acc, found[k], cyc), found, k + 1, cyc)

\* an extraction that also reports stray error text as an issue
ExtractFrom_with_traces(buf, from) ==
  ParseLoop(buf, from, 0, <<>>)
    \o LET stray == SelectSeq(SubSeq(buf, from, Len(buf)),
                               LAMBDA l : HasErrorOrException(l)
                                            /\ ~HasWarningText(l) /\ ~HasErrorText(l))
       IN [k \in 1..Len(stray) |->
             Issue("ERROR", "mkdocs", strip(stray[k]), <<>>, <<>>, <<>>)]

\* the issues of the buffered lines from index from on
ExtractFrom(buf, from) == ParseLoop(buf, from, 0, <<>>)

ClearCycle_keeps_issues(acc) == Acc(acc.issues, {}, acc.calls, acc.log)
ClearCycle_resets_calls(acc) == Acc(<<>>, {}, <<>>, acc.log)
ClearCycle_keeps_seen(acc) == Acc(<<>>, acc.seen, acc.calls, acc.log)

\* what a rebuild_started boundary does to the accumulated results
ClearCycle(acc) == Acc(<<>>, {}, acc.calls, acc.log)

ClearBuildInfo(info) ==
  [info EXCEPT !.build_time = <<>>, !.reported_warning_count = <<>>]

Evicted_keeps_oldest(buf) ==
  IF Len(buf) > BUFFER_MAX_SIZE THEN SubSeq(buf, 1, BUFFER_MAX_SIZE) ELSE buf

\* the buffer after appending line, the oldest lines evicted past the cap
Evicted(buf) ==
  IF Len(buf) > BUFFER_MAX_SIZE
    THEN SubSeq(buf, Len(buf) - BUFFER_MAX_SIZE + 1, Len(buf))
    ELSE buf

EvictedCount(buf) ==
  IF Len(buf) > BUFFER_MAX_SIZE THEN Len(buf) - BUFFER_MAX_SIZE ELSE 0

\* the producer: chunks of lines that arrive one line at a time
MaxChunks == 4

WarnX == <<"WARNING", "-", "x">>
ErrX == <<"ERROR", "-", "x">>
WarnV == <<"WARNING", "-", "ValueError:">>
BuiltLine == <<"INFO", "-", "built1">>
ServingLine == <<"INFO", "-", "serving">>
RebuildLine == <<"INFO", "-", "detected">>
InfoLinkLine == <<"INFO", "-", "Docfile", "'a.md'", "brokenlink">>
WarnedLine == <<"INFO", "-", "warned2">>
ReadingB == <<"DEBUG", "-", "Reading:", "b.md">>

Chunks ==
  { <<WarnX>>, <<ErrX>>, <<WarnV>>,
    <<InfoLinkLine, WarnedLine, BuiltLine, ServingLine>>,
    <<RebuildLine>>,
    <<HeaderLine, <<"codeis">>, <<"sp", "x">>, <<"outis">>, <<"sp", "ValueError:">>>>,
    <<ReadingB, HeaderLine, <<"codeis">>, <<"sp", "y">>, <<>>, <<"outis">>,
      <<"sp", "frame">>, <<"sp", "ValueError:">>>> }

\* a line in the build tool's log format
RecognizableLine(line) ==
  LET s == strip(line) IN
    \/ StartsWithSevDash(s, {"INFO", "DEBUG", "WARNING", "ERROR"})
    \/ StartsWithDateThenSev(s)

\* error text that is not part of the build tool's log
ServerErrorLine(line) == ~RecognizableLine(line) /\ HasErrorOrException(line)

\* StreamingProcessor.process_line(line)
ProcessLineBody(line) ==
  LET boundary == detect_chunk_boundary(line, prev_line)
      rebuild == boundary = "rebuild_started"
      acc0 == Acc(all_issues, seen_issues, captured, accepted_log)
      \* flush-then-clear: what is still pending belongs to the old cycle
      flushed == IF rebuild
                   THEN AcceptAll(acc0, ExtractFrom(buffer, scan_pos), 1, cycle)
                   ELSE acc0
      acc1 == IF rebuild THEN ClearCycle(flushed) ELSE flushed
      cyc1 == IF rebuild THEN cycle + 1 ELSE cycle
      pos1 == IF rebuild THEN Len(buffer) + 1 ELSE scan_pos
      info1 == IF rebuild THEN ClearBuildInfo(build_info) ELSE build_info
      msgs1 == IF rebuild THEN <<>> ELSE all_info_messages
      appended == Append(buffer, line)
      buf == Evicted(appended)
      pos2 == IF pos1 - EvictedCount(appended) < 1
                THEN 1 ELSE pos1 - EvictedCount(appended)
      open == is_in_multiline_block(buf)
      acc2 == IF open THEN acc1 ELSE AcceptAll(acc1, ExtractFrom(buf, pos2), 1, cyc1)
  IN
    /\ buffer' = buf
    /\ scan_pos' = IF open THEN pos2 ELSE Len(buf) + 1
    /\ all_issues' = acc2.issues
    /\ seen_issues' = acc2.seen
    /\ captured' = acc2.calls
    /\ accepted_log' = acc2.log
    /\ all_info_messages' = msgs1 \o parse_info_messages_line(line)
    /\ build_info' =
         [UpdateBuildInfo(info1, line) EXCEPT
            !.reported_warning_count = ReportedWarningCount(line, @)]
    /\ prev_line' = SomeLine(line)
    /\ cycle' = cyc1
    /\ received' = Append(received, line)
    /\ raw_buffer' = Append(raw_buffer, line)
    /\ saw_build_output' = (saw_build_output \/ RecognizableLine(line))
    /\ in_serve_mode' = (in_serve_mode \/ boundary = "server_started")
    /\ saw_server_error' = (saw_server_error \/ (in_serve_mode /\ ServerErrorLine(line)))
    /\ error_lines' = IF in_serve_mode /\ ServerErrorLine(line)
                        THEN Append(error_lines, line) ELSE error_lines
    /\ UNCHANGED <<errors_only, srvvars>>

process_line ==
  /\ result = <<>>
  /\ \/ /\ todo # <<>>
        /\ ProcessLineBody(Head(todo))
        /\ todo' = Tail(todo)
        /\ UNCHANGED nchunks
     \/ /\ todo = <<>>
        /\ nchunks < MaxChunks
        /\ \E c \in Chunks :
             /\ ProcessLineBody(Head(c))
             /\ todo' = Tail(c)
        /\ nchunks' = nchunks + 1
  /\ UNCHANGED <<result, fnvars, uivars, modevars>>

\* finalize() that returns what was accumulated, without a last pass
finalize_no_last_pass ==
  /\ result = <<>>
  /\ result' = <<[issues |-> all_issues, build_info |-> build_info]>>
  /\ UNCHANGED <<buffer, scan_pos, all_issues, seen_issues, all_info_messages,
                 build_info, prev_line, captured, todo, nchunks, cycle,
                 accepted_log, received, errors_only, saw_build_output,
                 raw_buffer, in_serve_mode, saw_server_error, error_lines,
                 fnvars, uivars, srvvars, modevars>>

\* StreamingProcessor.finalize(): a last pass over what is still buffered
FinalizeBody ==
  /\ result = <<>>
  /\ LET acc == AcceptAll(Acc(all_issues, seen_issues, captured, accepted_log),
                          ExtractFrom(buffer, scan_pos), 1, cycle)
     IN /\ all_issues' = acc.issues
        /\ seen_issues' = acc.seen
        /\ captured' = acc.calls
        /\ accepted_log' = acc.log
        /\ scan_pos' = Len(buffer) + 1
        /\ result' = <<[issues |-> acc.issues, build_info |-> build_info]>>
  /\ UNCHANGED <<buffer, all_info_messages, build_info, prev_line, todo, nchunks,
                 cycle, received, errors_only, saw_build_output, raw_buffer,
                 in_serve_mode, saw_server_error, error_lines, fnvars, srvvars>>

finalize == FinalizeBody /\ UNCHANGED <<uivars, modevars>>

Init == ProcessorInit /\ FnIdle

Next == process_line \/ finalize

Spec == Init /\ [][Next]_vars

\* ------------------------------------------------------- claims C1 to C6

\* the identity of a finding: severity, source and message
KeyOf(issue) == <<issue.level, issue.source, issue.message>>

\* the findings of found[k..] whose identity is none of keys nor of an earlier one
RECURSIVE FirstOfEachKey(_, _, _)
FirstOfEachKey(found, k, keys) ==
  IF k > Len(found) THEN <<>>
  ELSE IF KeyOf(found[k]) \in keys THEN FirstOfEachKey(found, k + 1, keys)
  ELSE <<found[k]>> \o FirstOfEachKey(found, k + 1, keys \cup {KeyOf(found[k])})

IsRebuildLine(line) == detect_chunk_boundary(line, NoLine) = "rebuild_started"

\* the index of the last rebuild_started line among buf[1..n], 1 if there is none
CycleStart(buf, n) ==
  IF \E i \in 1..n : IsRebuildLine(buf[i])
    THEN CHOOSE i \in 1..n :
           IsRebuildLine(buf[i]) /\ \A k \in (i + 1)..n : ~IsRebuildLine(buf[k])
    ELSE 1

\* the distinct findings of the lines buf[from..to], in order of first occurrence
CycleFindings(buf, from, to) ==
  FirstOfEachKey(ParseLoop(SubSeq(buf, 1, to), from, 0, <<>>), 1, {})

\* the distinct findings of every cycle of buf[1..n], cycle after cycle
RECURSIVE AllCycleFindings(_, _)
AllCycleFindings(buf, n) ==
  IF n = 0 THEN <<>>
  ELSE LET a == CycleStart(buf, n)
       IN (IF a > 1 THEN AllCycleFindings(buf, a - 1) ELSE <<>>)
            \o CycleFindings(buf, a, n)

IssuesOfLog(log) == [k \in 1..Len(log) |-> log[k].issue]
IssuesOfCycle(log, c) == IssuesOfLog(SelectSeq(log, LAMBDA e : e.cycle = c))

IsPrefix(s, t) == Len(s) <= Len(t) /\ SubSeq(t, 1, Len(s)) = s
IsSuffix(s, t) == Len(s) <= Len(t) /\ SubSeq(t, Len(t) - Len(s) + 1, Len(t)) = s

Finalized == result # <<>>

SingleLineWarnings == {WarnX, WarnV}

\* C1: the same single-line warning fed N >= 1 times and then finalize() gives
\* exactly one Issue, with the line's severity, source and message; and the
\* accepted list of a cycle never holds two issues of equal identity.
C1_IdempotentDedup ==
  /\ \A i, j \in 1..Len(all_issues) :
       KeyOf(all_issues[i]) = KeyOf(all_issues[j]) => i = j
  /\ \A w \in SingleLineWarnings :
       (Finalized /\ buffer # <<>> /\ \A i \in 1..Len(buffer) : buffer[i] = w)
         => /\ Len(result[1].issues) = 1
            /\ result[1].issues[1].level = "WARNING"
            /\ result[1].issues[1].source = "mkdocs"
            /\ result[1].issues[1].message = SubSeq(w, 3, Len(w))

\* the same warning was fed three times and finalize() returned one issue
C1_Witness ==
  /\ Finalized
  /\ buffer = <<WarnX, WarnX, WarnX>>
  /\ Len(result[1].issues) = 1

\* C2: the accumulated list holds the acceptances of the current cycle only,
\* none of before the last rebuild_started line; finalize() returns the distinct
\* findings of the lines from the last rebuild_started line on.
C2_CycleIsolation ==
  /\ all_issues = IssuesOfCycle(accepted_log, cycle)
  /\ Finalized =>
       result[1].issues =
         CycleFindings(buffer, CycleStart(buffer, Len(buffer)), Len(buffer))

\* first build with warning A, a rebuild, second build with B: only B returned
C2_Witness ==
  /\ Finalized
  /\ buffer = <<WarnX, InfoLinkLine, WarnedLine, BuiltLine, ServingLine,
                RebuildLine, ErrX>>
  /\ result[1].issues = <<Issue("ERROR", "mkdocs", <<"x">>, <<>>, <<>>, <<>>)>>

\* C3: on_issue has fired once for every acceptance of every cycle, in order,
\* while finalize() returns the last cycle's issues only.
C3_CallbackAcrossCycles ==
  /\ captured = IssuesOfLog(accepted_log)
  /\ Finalized =>
       /\ captured = AllCycleFindings(buffer, Len(buffer))
       /\ result[1].issues = IssuesOfCycle(accepted_log, cycle)

\* two cycles with one issue each: two calls, one issue returned
C3_Witness ==
  /\ Finalized
  /\ buffer = <<WarnX, RebuildLine, WarnV>>
  /\ Len(captured) = 2
  /\ Len(result[1].issues) = 1
  /\ captured[2] = result[1].issues[1]
  /\ captured[1] # captured[2]

\* C4: every step appends the newly accepted issues to the callback's record
\* and, within a cycle, the same issues in the same order to the accepted list;
\* nothing already in the list is reordered or altered, and an issue whose
\* identity is in the list is not accepted again.
C4_AcceptanceOrder ==
  [][ /\ IsPrefix(captured, captured')
      /\ LET new == SubSeq(captured', Len(captured) + 1, Len(captured'))
         IN /\ cycle' = cycle => all_issues' = all_issues \o new
            /\ cycle' # cycle => IsSuffix(all_issues', new)
            /\ cycle' = cycle =>
                 \A k \in 1..Len(new) :
                   \A i \in 1..Len(all_issues) : KeyOf(new[k]) # KeyOf(all_issues[i])
    ]_vars

\* a duplicate of the first issue arrived after a second issue and was dropped
C4_Witness ==
  /\ buffer = <<WarnX, ErrX, WarnX>>
  /\ all_issues = << Issue("WARNING", "mkdocs", <<"x">>, <<>>, <<>>, <<>>),
                     Issue("ERROR", "mkdocs", <<"x">>, <<>>, <<>>, <<>>) >>
  /\ captured = all_issues

C6_RebuildResets ==
  /\ [](seen_issues = {KeyOf(all_issues[i]) : i \in 1..Len(all_issues)})
  /\ [][ cycle' # cycle =>
           /\ all_issues' = <<>>
           /\ seen_issues' = {}
           /\ all_info_messages' = <<>>
           /\ build_info'.build_time = <<>>
           /\ build_info'.reported_warning_count = <<>>
       ]_vars

\* the warning of the first cycle recurred after the rebuild and was accepted
C6_Witness ==
  /\ buffer = <<WarnX, InfoLinkLine, WarnedLine, BuiltLine, ServingLine,
                RebuildLine, WarnX>>
  /\ cycle = 1
  /\ all_info_messages = <<>>
  /\ build_info.build_time = <<>>
  /\ build_info.reported_warning_count = <<>>
  /\ build_info.server_url # <<>>
  /\ all_issues = <<Issue("WARNING", "mkdocs", <<"x">>, <<>>, <<>>, <<>>)>>
  /\ captured = all_issues \o all_issues

\* ------------------------------------ specification: a stream past the cap

\* how many lines the stream holds beyond the RollingBuffer's cap
MaxExtra == 3

\* "INFO -  Line i"
InfoLine(i) ==
  <<"INFO", "-", CASE i % 3 = 0 -> "x" [] i % 3 = 1 -> "y" [] OTHER -> "z">>

\* what the i-th line of the stream may be
StreamLines(i) ==
  IF i = 1 \/ i > BUFFER_MAX_SIZE
    THEN {InfoLine(i), WarnX, RebuildLine}
    ELSE {InfoLine(i)}

\* process_line called with the next line of the long stream
process_line_stream ==
  /\ result = <<>>
  /\ Len(received) < BUFFER_MAX_SIZE + MaxExtra
  /\ \E line \in StreamLines(Len(received) + 1) : ProcessLineBody(line)
  /\ UNCHANGED <<todo, nchunks, result, fnvars, uivars, modevars>>

SpecBuffer == Init /\ [][process_line_stream]_vars

\* ------------------------------------------------------------- claim C12

\* C12: after any sequence of process_line calls the RollingBuffer holds at
\* most BUFFER_MAX_SIZE lines, and they are the most recently received lines
\* in arrival order.
C12_BoundedRecentBuffer ==
  /\ Len(buffer) <= BUFFER_MAX_SIZE
  /\ IsSuffix(buffer, received)

\* two lines past the cap arrived and the two oldest lines were evicted
C12_Witness ==
  /\ Len(received) = BUFFER_MAX_SIZE + 2
  /\ Len(buffer) = BUFFER_MAX_SIZE
  /\ buffer[1] = received[3]
  /\ buffer[1] # received[1]
  /\ buffer[BUFFER_MAX_SIZE] = received[BUFFER_MAX_SIZE + 2]

\* --------------------------------------------- specification: build info

MaxInfoLines == 3

Serving2Line == <<"INFO", "-", "serving2">>
Built2Line == <<"INFO", "-", "built2">>
TodirLine == <<"INFO", "-", "todir">>
Todir2Line == <<"INFO", "-", "todir2", "sp">>
ServingBuiltLine == <<"date", "serving", "built2">>
OtherLine == <<"INFO", "-", "x">>

InfoLines ==
  {ServingLine, Serving2Line, BuiltLine, Built2Line, TodirLine, Todir2Line,
   ServingBuiltLine, OtherLine, RebuildLine}

\* the lines are given to extract_build_info and, one by one, to a processor
InitBuildInfo ==
  /\ arg \in [lines : SeqsOf(InfoLines, 0, MaxInfoLines)]
  /\ ret = <<>>
  /\ pc = "call"
  /\ ProcessorInit

CallExtractBuildInfo ==
  /\ pc = "call"
  /\ ret' = extract_build_info(arg.lines)
  /\ pc' = "done"
  /\ UNCHANGED <<arg, procvars, srvvars, modevars>>

\* process_line called with the next line of arg.lines
process_line_arg ==
  /\ result = <<>>
  /\ Len(received) < Len(arg.lines)
  /\ ProcessLineBody(arg.lines[Len(received) + 1])
  /\ UNCHANGED <<todo, nchunks, result, fnvars, uivars, modevars>>

SpecBuildInfo ==
  InitBuildInfo /\ [][CallExtractBuildInfo \/ process_line_arg]_vars

\* ------------------------------------------------------------- claim C13

Max(S) == CHOOSE x \in S : \A y \in S : x >= y

\* the indices >= from of the lines that hold a token of toks
MatchIdx(lines, from, toks) ==
  {i \in from..Len(lines) : \E j \in 1..Len(lines[i]) : lines[i][j] \in toks}

FirstTok(line, toks) == line[Min({j \in 1..Len(line) : line[j] \in toks})]

\* what the field's pattern captures from a matching line (the directory is
\* the rest of the line, a token sequence)
UrlCaptured(line) ==
  IF FirstTok(line, ServingTokens) = "serving"
    THEN "http://127.0.0.1:8000/" ELSE "http://localhost:8001/"
TimeCaptured(line) ==
  IF FirstTok(line, BuiltTokens) = "built1" THEN "1.00" ELSE "0.50"
DirCaptured(line) ==
  LET k == Min({j \in 1..Len(line) : line[j] \in DirTokens})
  IN strip(<<IF line[k] = "todir" THEN "/site" ELSE "/out">>
             \o SubSeq(line, k + 1, Len(line)))

\* the capture of the last matching line of lines[from..], <<>> if none matches
LastUrl(lines, from) ==
  IF MatchIdx(lines, from, ServingTokens) = {} THEN <<>>
  ELSE <<UrlCaptured(lines[Max(MatchIdx(lines, from, ServingTokens))])>>
LastTime(lines, from) ==
  IF MatchIdx(lines, from, BuiltTokens) = {} THEN <<>>
  ELSE <<TimeCaptured(lines[Max(MatchIdx(lines, from, BuiltTokens))])>>
LastDir(lines, from) ==
  IF MatchIdx(lines, from, DirTokens) = {} THEN <<>>
  ELSE DirCaptured(lines[Max(MatchIdx(lines, from, DirTokens))])

CountKey(issues, f) ==
  Cardinality({i \in 1..Len(issues) : KeyOf(issues[i]) = KeyOf(f)})

\* the stream held a build_complete or server_started line
SawFlushBoundary(lines) ==
  \E i \in 1..Len(lines) :
    detect_chunk_boundary(lines[i], NoLine) \in {"build_complete", "server_started"}

\* C14: whenever the input ends, finalize() returns every record of the final
\* cycle's lines exactly once (one issue of its identity; the record itself
\* unless an earlier record of the cycle has the same identity), also a record
\* whose closing log line never arrived and issues of a stream without any
\* build_complete or server_started line, together with the final cycle's
\* build time and the server URL.
C14_EndOfStreamRecovery ==
  Finalized =>
    LET a == CycleStart(buffer, Len(buffer))
        found == ParseLoop(buffer, a, 0, <<>>)
    IN /\ \A k \in 1..Len(found) :
            /\ CountKey(result[1].issues, found[k]) = 1
            /\ (\A m \in 1..(k - 1) : KeyOf(found[m]) # KeyOf(found[k]))
                 => \E i \in 1..Len(result[1].issues) : result[1].issues[i] = found[k]
       /\ \A i \in 1..Len(result[1].issues) :
            \E k \in 1..Len(found) : found[k] = result[1].issues[i]
       /\ result[1].build_info.build_time = LastTime(buffer, a)
       /\ result[1].build_info.server_url = LastUrl(buffer, 1)

\* the input ended inside an embedded-code record, after a warning and with no
\* build_complete or server_started line: both issues were returned
C14_Witness ==
  /\ Finalized
  /\ is_in_multiline_block(buffer)
  /\ ~SawFlushBoundary(buffer)
  /\ buffer[1] = WarnX
  /\ Len(result[1].issues) = 2
  /\ result[1].issues[1].source = "mkdocs"
  /\ result[1].issues[2].source = "markdown_exec"
  /\ result[1].issues[2].message = <<"ValueError:">>
  /\ result[1].issues[2].code # <<>>
  /\ result[1].issues[2].output # <<>>

\* ------------------------------------------------------ run_streaming_mode

\* one thing written to the console
Ev(name, data) == [ev |-> name, data |-> data]

\* print_build_time_inline: "Built in <t>s" when there is a build time, and a
\* blank line in any case
PrintBuildTime(info) == <<Ev("build_time", info.build_time)>>

\* print_info_groups_inline
PrintInfoGroups(msgs) == IF msgs # <<>> THEN <<Ev("info_groups", msgs)>> ELSE <<>>

\* print_pending_issues
PrintPendingIssues(p) == [k \in 1..Len(p) |-> Ev("issue", p[k])]

\* print_stderr_hint_inline prints
StderrHintDue(info, n_issues, hint_printed) ==
  /\ ~hint_printed
  /\ info.reported_warning_count # <<>>
  /\ info.reported_warning_count[1] > n_issues

\* print_server_url_inline prints
ServerUrlDue(info, url_printed) == ~url_printed /\ info.server_url # <<>>

PrintServerUrl(info, url_printed) ==
  IF ServerUrlDue(info, url_printed) THEN <<Ev("server_url", info.server_url)>> ELSE <<>>

\* the five calls of the flush, for the pending issues p
FlushPrints(info, msgs, n_issues, p, hint_printed, url_printed) ==
  PrintBuildTime(info) \o PrintInfoGroups(msgs) \o PrintPendingIssues(p)
    \o (IF StderrHintDue(info, n_issues, hint_printed)
          THEN <<Ev("stderr_hint", info.reported_warning_count)>> ELSE <<>>)
    \o PrintServerUrl(info, url_printed)

HandleBoundary_reflushes(boundary, p) ==
  IF boundary \in {"build_complete", "server_started"} THEN
    IF TRUE THEN
      /\ build_output_shown' = TRUE
      /\ printed' = printed \o FlushPrints(build_info', all_info_messages',
                                           Len(all_issues'), p,
                                           stderr_hint_printed, server_url_printed)
      /\ pending_issues' = <<>>
      /\ issues_printed' = issues_printed + Len(p)
      /\ stderr_hint_printed' =
           (stderr_hint_printed
              \/ StderrHintDue(build_info', Len(all_issues'), stderr_hint_printed))
      /\ server_url_printed' =
           (server_url_printed \/ ServerUrlDue(build_info', server_url_printed))
    ELSE IF boundary = "server_started" THEN
      /\ printed' = printed \o PrintServerUrl(build_info', server_url_printed)
      /\ server_url_printed' =
           (server_url_printed \/ ServerUrlDue(build_info', server_url_printed))
      /\ pending_issues' = p
      /\ UNCHANGED <<build_output_shown, issues_printed, stderr_hint_printed>>
    ELSE
      /\ pending_issues' = p
      /\ UNCHANGED <<build_output_shown, issues_printed, stderr_hint_printed,
                     server_url_printed, printed>>
  ELSE IF boundary = "rebuild_started" THEN
    /\ issues_printed' = 0
    /\ build_output_shown' = FALSE
    /\ pending_issues' = p
    /\ UNCHANGED <<stderr_hint_printed, server_url_printed, printed>>
  ELSE
    /\ pending_issues' = p
    /\ UNCHANGED <<build_output_shown, issues_printed, stderr_hint_printed,
                   server_url_printed, printed>>

HandleBoundary_rebuild_discards(boundary, p) ==
  IF boundary \in {"build_complete", "server_started"} THEN
    IF ~build_output_shown THEN
      /\ build_output_shown' = TRUE
      /\ printed' = printed \o FlushPrints(build_info', all_info_messages',
                                           Len(all_issues'), p,
                                           stderr_hint_printed, server_url_printed)
      /\ pending_issues' = <<>>
      /\ issues_printed' = issues_printed + Len(p)
      /\ stderr_hint_printed' =
           (stderr_hint_printed
              \/ StderrHintDue(build_info', Len(all_issues'), stderr_hint_printed))
      /\ server_url_printed' =
           (server_url_printed \/ ServerUrlDue(build_info', server_url_printed))
    ELSE IF boundary = "server_started" THEN
      /\ printed' = printed \o PrintServerUrl(build_info', server_url_printed)
      /\ server_url_printed' =
           (server_url_printed \/ ServerUrlDue(build_info', server_url_printed))
      /\ pending_issues' = p
      /\ UNCHANGED <<build_output_shown, issues_printed, stderr_hint_printed>>
    ELSE
      /\ pending_issues' = p
      /\ UNCHANGED <<build_output_shown, issues_printed, stderr_hint_printed,
                     server_url_printed, printed>>
  ELSE IF boundary = "rebuild_started" THEN
    /\ issues_printed' = 0
    /\ build_output_shown' = FALSE
    /\ pending_issues' = <<>>
    /\ UNCHANGED <<stderr_hint_printed, server_url_printed, printed>>
  ELSE
    /\ pending_issues' = p
    /\ UNCHANGED <<build_output_shown, issues_printed, stderr_hint_printed,
                   server_url_printed, printed>>


\* _handle_boundary(boundary), p the issues on_issue has queued so far
HandleBoundary(boundary, p) ==
  IF boundary \in {"build_complete", "server_started"} THEN
    IF ~build_output_shown THEN
      /\ build_output_shown' = TRUE
      /\ printed' = printed \o FlushPrints(build_info', all_info_messages',
                                           Len(all_issues'), p,
                                           stderr_hint_printed, server_url_printed)
      /\ pending_issues' = <<>>
      /\ issues_printed' = issues_printed + Len(p)
      /\ stderr_hint_printed' =
           (stderr_hint_printed
              \/ StderrHintDue(build_info', Len(all_issues'), stderr_hint_printed))
      /\ server_url_printed' =
           (server_url_printed \/ ServerUrlDue(build_info', server_url_printed))
    ELSE IF boundary = "server_started" THEN
      /\ printed' = printed \o PrintServerUrl(build_info', server_url_printed)
      /\ server_url_printed' =
           (server_url_printed \/ ServerUrlDue(build_info', server_url_printed))
      /\ pending_issues' = p
      /\ UNCHANGED <<build_output_shown, issues_printed, stderr_hint_printed>>
    ELSE
      /\ pending_issues' = p
      /\ UNCHANGED <<build_output_shown, issues_printed, stderr_hint_printed,
                     server_url_printed, printed>>
  ELSE IF boundary = "rebuild_started" THEN
    /\ issues_printed' = 0
    /\ build_output_shown' = FALSE
    /\ pending_issues' = p
    /\ UNCHANGED <<stderr_hint_printed, server_url_printed, printed>>
  ELSE
    /\ pending_issues' = p
    /\ UNCHANGED <<build_output_shown, issues_printed, stderr_hint_printed,
                   server_url_printed, printed>>

\* one iteration of the read loop: the boundary for display, process_line
\* (whose on_issue calls queue the new issues), _handle_boundary
StreamLineBody(line) ==
  /\ ProcessLineBody(line)
  /\ HandleBoundary(detect_chunk_boundary(line, NoLine),
                    pending_issues \o SubSeq(captured', Len(captured) + 1, Len(captured')))

\* print_summary (display.py): the summary, then the stderr hint when the
\* build reported more warnings than there are issues (lines 367-382)
print_summary(issues, info) ==
  <<Ev("summary", issues)>>
    \o (IF info.reported_warning_count # <<>>
             /\ info.reported_warning_count[1] > Len(issues)
          THEN <<Ev("stderr_hint", info.reported_warning_count)>> ELSE <<>>)

StreamingEnd_no_raw_check(seen_output, raw, server_error, errors, serve, issues, info) ==
  IF server_error /\ errors # <<>> THEN
    [prints |-> <<Ev("server_error", errors)>>, code |-> 1]
  ELSE
    [prints |-> (IF serve THEN <<Ev("server_stopped", <<>>)>> ELSE <<>>)
                  \o (IF issues = <<>> THEN <<Ev("no_issues", <<>>)>> ELSE <<>>)
                  \o print_summary(issues, info),
     code |-> IF \E i \in 1..Len(issues) : issues[i].level = "ERROR" THEN 1 ELSE 0]

\* what run_streaming_mode prints and returns after finalize() and the last
\* flush (source lines 283-316)
StreamingEnd(seen_output, raw, server_error, errors, serve, issues, info) ==
  IF ~seen_output /\ raw # <<>> THEN
    [prints |-> <<Ev("no_build_output", <<>>)>>
                  \o [k \in 1..Len(raw) |-> Ev("raw", raw[k])],
     code |-> 1]
  ELSE IF server_error /\ errors # <<>> THEN
    [prints |-> <<Ev("server_error", errors)>>, code |-> 1]
  ELSE
    [prints |-> (IF serve THEN <<Ev("server_stopped", <<>>)>> ELSE <<>>)
                  \o (IF issues = <<>> THEN <<Ev("no_issues", <<>>)>> ELSE <<>>)
                  \o print_summary(issues, info),
     code |-> IF \E i \in 1..Len(issues) : issues[i].level = "ERROR" THEN 1 ELSE 0]

\* the producer of the run: chunks of lines on standard input
MaxStreamChunks == 4

JunkLine == <<"x">>
TraceLine == <<"ValueError:">>

StreamChunks ==
  { <<WarnX>>, <<ErrX>>, <<JunkLine>>, <<TraceLine>>,
    <<InfoLinkLine, WarnedLine, BuiltLine, ServingLine>>,
    <<ServingLine>>, <<RebuildLine>> }

\* the read loop of run_streaming_mode (source lines 255-262)
stream_line ==
  /\ exit_code = <<>>
  /\ \/ /\ todo # <<>>
        /\ StreamLineBody(Head(todo))
        /\ todo' = Tail(todo)
        /\ UNCHANGED nchunks
     \/ /\ todo = <<>>
        /\ nchunks < MaxStreamChunks
        /\ \E c \in StreamChunks :
             /\ StreamLineBody(Head(c))
             /\ todo' = Tail(c)
        /\ nchunks' = nchunks + 1
  /\ UNCHANGED <<result, exit_code, fnvars, modevars>>

\* end of input: finalize(), the flush of what is still queued, the outcome
stream_end ==
  /\ exit_code = <<>>
  /\ todo = <<>>
  /\ FinalizeBody
  /\ LET p == pending_issues \o SubSeq(captured', Len(captured) + 1, Len(captured'))
         flush == p # <<>>
         url_printed == IF flush
                          THEN server_url_printed
                                 \/ ServerUrlDue(build_info, server_url_printed)
                          ELSE server_url_printed
         end == StreamingEnd(saw_build_output, raw_buffer, saw_server_error,
                             error_lines, in_serve_mode, all_issues', build_info)
     IN /\ printed' = printed
                        \o (IF flush
                              THEN FlushPrints(build_info, all_info_messages,
                                               Len(all_issues'), p,
                                               stderr_hint_printed, server_url_printed)
                              ELSE <<>>)
                        \o end.prints
        /\ pending_issues' = IF flush THEN <<>> ELSE p
        /\ issues_printed' = issues_printed + Len(p)
        /\ stderr_hint_printed' =
             (stderr_hint_printed
                \/ (flush /\ StderrHintDue(build_info, Len(all_issues'),
                                           stderr_hint_printed)))
        /\ server_url_printed' = url_printed
        /\ exit_code' = <<end.code>>
  /\ UNCHANGED <<build_output_shown, modevars>>

InitStreaming ==
  ProcessorNew /\ errors_only \in BOOLEAN /\ FnIdle /\ ServerIdle /\ ModeIdle

NextStreaming == stream_line \/ stream_end

SpecStreaming == InitStreaming /\ [][NextStreaming]_vars

\* ------------------------------------------------------------- claim C15

EventNames(evs) == {evs[k].ev : k \in 1..Len(evs)}

\* the lines printed as raw output, in order
RawPrinted(evs) ==
  LET raw == SelectSeq(evs, LAMBDA e : e.ev = "raw")
  IN [k \in 1..Len(raw) |-> raw[k].data]

\* C15: a run whose input was non-empty and in which the processor never saw
\* recognizable build output prints the raw lines, returns 1 and never prints
\* "No warnings or errors"; a run on empty input prints "No warnings or errors"
\* and returns 0.
C15_NothingParsedIsDistinct ==
  exit_code # <<>> =>
    /\ (received # <<>> /\ ~saw_build_output) =>
         /\ exit_code = <<1>>
         /\ RawPrinted(printed) = received
         /\ "no_issues" \notin EventNames(printed)
    /\ received = <<>> =>
         /\ exit_code = <<0>>
         /\ "no_issues" \in EventNames(printed)

\* two lines that are not build-tool output were read: raw output, exit code 1
C15_Witness ==
  /\ exit_code = <<1>>
  /\ received = <<JunkLine, JunkLine>>
  /\ ~saw_build_output
  /\ all_issues = <<>>
  /\ RawPrinted(printed) = received

\* ------------------------------------------------------- DocsFilterServer

\* a snapshot of equal timestamp is taken as new
refresh_from_state_file_keeps_stamp(sv, file) ==
  IF ~sv.watch_mode THEN [server |-> sv, ret |-> FALSE]
  ELSE IF file = <<>> THEN [server |-> sv, ret |-> FALSE]
  ELSE
    LET state == file[1]
        sv1 == [sv EXCEPT !.build_status = state.build_status,
                          !.build_started_at = state.build_started_at]
    IN IF state.timestamp <= sv.last_state_timestamp
         THEN [server |-> sv1, ret |-> FALSE]
         ELSE [server |-> [sv1 EXCEPT !.issues = state.issues,
                                      !.info_messages = state.info_messages,
                                      !.build_info = state.build_info,
                                      !.raw_output = state.raw_output],
               ret |-> TRUE]

refresh_from_state_file_older_only(sv, file) ==
  IF ~sv.watch_mode THEN [server |-> sv, ret |-> FALSE]
  ELSE IF file = <<>> THEN [server |-> sv, ret |-> FALSE]
  ELSE
    LET state == file[1]
        sv1 == [sv EXCEPT !.build_status = state.build_status,
                          !.build_started_at = state.build_started_at]
    IN IF state.timestamp < sv.last_state_timestamp
         THEN [server |-> sv1, ret |-> FALSE]
         ELSE [server |-> [sv1 EXCEPT !.last_state_timestamp = state.timestamp,
                                      !.issues = state.issues,
                                      !.info_messages = state.info_messages,
                                      !.build_info = state.build_info,
                                      !.raw_output = state.raw_output],
               ret |-> TRUE]

\* _refresh_from_state_file: the server after the call and the return value
refresh_from_state_file(sv, file) ==
  IF ~sv.watch_mode THEN [server |-> sv, ret |-> FALSE]
  ELSE IF file = <<>> THEN [server |-> sv, ret |-> FALSE]
  ELSE
    LET state == file[1]
        sv1 == [sv EXCEPT !.build_status = state.build_status,
                          !.build_started_at = state.build_started_at]
    IN IF state.timestamp <= sv.last_state_timestamp
         THEN [server |-> sv1, ret |-> FALSE]
         ELSE [server |-> [sv1 EXCEPT !.last_state_timestamp = state.timestamp,
                                      !.issues = state.issues,
                                      !.info_messages = state.info_messages,
                                      !.build_info = state.build_info,
                                      !.raw_output = state.raw_output],
               ret |-> TRUE]

IssueContent_with_output(issue) ==
  <<issue.level, issue.source, issue.message>>
    \o (IF issue.file # <<>> THEN <<issue.file>> ELSE <<>>)
    \o <<issue.output>>

\* the string that _get_issue_id hashes: level:source:message, then :file if
\* the issue has a file
IssueContent(issue) ==
  <<issue.level, issue.source, issue.message>>
    \o (IF issue.file # <<>> THEN <<issue.file>> ELSE <<>>)

\* hashlib.sha256(content.encode()).digest()[:4].hex() of the contents that
\* occur, "ValueError:" read as "ValueError: boom"
Sha256Hex4(content) ==
  CASE content = <<"WARNING", "markdown_exec", <<"ValueError:">>, <<"a.md">>>>
         -> "fc03c107"
    [] content = <<"WARNING", "markdown_exec", <<"ValueError:">>, <<"b.md">>>>
         -> "6f4b2ffd"
    [] content = <<"WARNING", "markdown_exec", <<"ValueError:">>>>
         -> "121ed573"
    [] content = <<"ERROR", "mkdocs", <<"x">>>>
         -> "2ffb691c"
    [] content = <<"WARNING", "mkdocs", <<"x">>>>
         -> "60f38ecb"
    [] content = <<"WARNING", "markdown_exec", <<"ValueError:">>, <<"a.md">>,
                   <<<<"sp", "ValueError:">>>>>>
         -> "53d374c7"
    [] content = <<"WARNING", "markdown_exec", <<"ValueError:">>, <<"a.md">>,
                   <<<<"sp", "frame">>, <<"sp", "ValueError:">>>>>>
         -> "16c5c38c"
    [] content = <<"WARNING", "markdown_exec", <<"ValueError:">>, <<"b.md">>,
                   <<<<"sp", "ValueError:">>>>>>
         -> "08765453"
    [] content = <<"ERROR", "mkdocs", <<"x">>, <<>>>>
         -> "c169fc03"

\* the cache entry of content in _issue_ids, <<>> if there is none
CachedId(issue_ids, content) ==
  LET hits == SelectSeq(issue_ids, LAMBDA e : e.content = content)
  IN IF hits = <<>> THEN <<>> ELSE <<hits[1].id>>

\* _get_issue_id(issue): the cache after the call and the id
get_issue_id(issue_ids, issue) ==
  LET content == IssueContent(issue)
      ids == IF CachedId(issue_ids, content) = <<>>
               THEN Append(issue_ids, [content |-> content, id |-> Sha256Hex4(content)])
               ELSE issue_ids
  IN [issue_ids |-> ids, id |-> <<"issue-", CachedId(ids, content)[1]>>]

\* the ids of issues[k..], the cache threaded through the calls
RECURSIVE IssueIds(_, _, _)
IssueIds(issue_ids, issues, k) ==
  IF k > Len(issues) THEN [issue_ids |-> issue_ids, pairs |-> {}]
  ELSE LET r == get_issue_id(issue_ids, issues[k])
           rest == IssueIds(r.issue_ids, issues, k + 1)
       IN [issue_ids |-> rest.issue_ids,
           pairs |-> {[issue |-> issues[k], id |-> r.id]} \cup rest.pairs]

\* the snapshots the host process may have persisted
MaxStamp == 2
MaxCalls == 4

IssueA ==
  Issue("WARNING", "markdown_exec", <<"ValueError:">>, <<"a.md">>,
        << <<"sp", "x">> >>, << <<"sp", "ValueError:">> >>)
IssueA2 ==
  Issue("WARNING", "markdown_exec", <<"ValueError:">>, <<"a.md">>,
        << <<"sp", "y">> >>, << <<"sp", "frame">>, <<"sp", "ValueError:">> >>)
IssueB ==
  Issue("WARNING", "markdown_exec", <<"ValueError:">>, <<"b.md">>,
        << <<"sp", "x">> >>, << <<"sp", "ValueError:">> >>)
IssueE == Issue("ERROR", "mkdocs", <<"x">>, <<>>, <<>>, <<>>)

SnapshotContents ==
  { [issues |-> <<IssueA, IssueE>>,
     info_messages |-> parse_info_messages_line(InfoLinkLine),
     build_info |-> [EmptyBuildInfo EXCEPT !.build_time = <<"1.00">>],
     raw_output |-> <<ErrX, BuiltLine>>],
    [issues |-> <<IssueB>>,
     info_messages |-> <<>>,
     build_info |-> [EmptyBuildInfo EXCEPT !.build_time = <<"0.50">>],
     raw_output |-> <<Built2Line>>],
    [issues |-> <<IssueA2>>,
     info_messages |-> <<>>,
     build_info |-> EmptyBuildInfo,
     raw_output |-> <<RebuildLine>>] }

Snapshots ==
  { [timestamp |-> t,
     issues |-> c.issues,
     info_messages |-> c.info_messages,
     build_info |-> c.build_info,
     raw_output |-> c.raw_output,
     build_status |-> st,
     build_started_at |-> IF st = "building" THEN <<t>> ELSE <<>>] :
      t \in 1..MaxStamp, c \in SnapshotContents, st \in {"complete", "building"} }

\* the state file is written (by the host process of this or an earlier run)
write_state_file ==
  /\ \E snap \in Snapshots : state_file' = <<snap>>
  /\ UNCHANGED <<server, last_call, id_log, refresh_log, fnvars, procvars, modevars>>

\* the text of a tool's answer: its kind and the lists it carries
Response(status, issues, info_messages) ==
  [status |-> status, issues |-> issues, info_messages |-> info_messages]

get_build_in_progress_response_never(sv) == <<>>

\* _get_build_in_progress_response (mcp_server.py lines 267-283): None
\* unless the status is "building"
get_build_in_progress_response(sv) ==
  IF sv.build_status # "building" THEN <<>>
  ELSE <<Response("building", <<>>, <<>>)>>

\* the refresh log after a refresh by call that returned r
Adopted(log, call, r) ==
  IF r.ret THEN Append(log, [call |-> call, timestamp |-> r.server.last_state_timestamp])
  ELSE log

\* the watch-mode rebuild tool has refreshed and has not yet called
\* _handle_get_issues
RebuildPending == last_call.name = "rebuild" /\ last_call.resp = <<>>

\* a refresh on its own (run_mcp_server, mcp_server.py line 697)
refresh ==
  /\ last_call.n < MaxCalls
  /\ ~RebuildPending
  /\ LET r == refresh_from_state_file(server, state_file)
     IN /\ server' = r.server
        /\ refresh_log' = Adopted(refresh_log, "refresh", r)
        /\ last_call' = [n |-> last_call.n + 1, name |-> "refresh", ret |-> r.ret,
                         resp |-> <<>>]
  /\ UNCHANGED <<state_file, id_log, fnvars, procvars, modevars>>

\* _handle_get_issues with the default arguments: a refresh, then either the
\* build-in-progress response or every issue with its id
HandleGetIssues(call, n) ==
  LET r == refresh_from_state_file(server, state_file)
      building == get_build_in_progress_response(r.server)
      ids == IssueIds(r.server.issue_ids, r.server.issues, 1)
  IN /\ server' = IF building # <<>> THEN r.server
                   ELSE [r.server EXCEPT !.issue_ids = ids.issue_ids]
     /\ id_log' = IF building # <<>> THEN id_log ELSE id_log \cup ids.pairs
     /\ refresh_log' =
          LET log == Adopted(refresh_log, call, r)
          IN IF call = "rebuild" /\ building = <<>>
               THEN Append(log, [call |-> "rebuild_answer",
                                 timestamp |-> r.server.last_state_timestamp])
               ELSE log
     /\ last_call' =
          [n |-> n, name |-> call,
           ret |-> IF call = "rebuild" THEN TRUE ELSE r.ret,
           resp |-> IF building # <<>> THEN building
                    ELSE <<Response("issues", r.server.issues, <<>>)>>]

\* the get_issues tool
get_issues ==
  /\ last_call.n < MaxCalls
  /\ ~RebuildPending
  /\ HandleGetIssues("get_issues", last_call.n + 1)
  /\ UNCHANGED <<state_file, fnvars, procvars, modevars>>

InitServer ==
  /\ ProcessorNew /\ errors_only = FALSE /\ FnIdle /\ ModeIdle
  /\ server \in {NewServer(TRUE), NewServer(FALSE)}
  /\ state_file = <<>>
  /\ last_call = NoCall
  /\ id_log = {}
  /\ refresh_log = <<>>

NextServer == write_state_file \/ refresh \/ get_issues

SpecServer == InitServer /\ [][NextServer]_vars

\* ------------------------------------------------------------- claim C16

\* the step is a refresh or a tool call that read a snapshot not newer than the
\* last one seen
StaleRefreshStep ==
  /\ last_call'.n = last_call.n + 1
  /\ server.watch_mode
  /\ state_file # <<>>
  /\ state_file[1].timestamp <= server.last_state_timestamp

\* C16 as stated: a refresh that reads a stale snapshot returns False and
\* leaves issues, info messages, build info, raw output, build status and
\* build-start time unchanged.
C16_StaleLeavesAllUnchanged ==
  [][ StaleRefreshStep =>
        /\ last_call'.ret = FALSE
        /\ server'.issues = server.issues
        /\ server'.info_messages = server.info_messages
        /\ server'.build_info = server.build_info
        /\ server'.raw_output = server.raw_output
        /\ server'.build_status = server.build_status
        /\ server'.build_started_at = server.build_started_at
    ]_vars

\* C16 amended: a refresh that reads a stale snapshot returns False and leaves
\* issues, info messages, build info, raw output and the last-seen timestamp
\* unchanged; the build status and the build-start time are those of the
\* snapshot.
C16_StaleKeepsData ==
  [][ StaleRefreshStep =>
        /\ last_call'.ret = FALSE
        /\ server'.issues = server.issues
        /\ server'.info_messages = server.info_messages
        /\ server'.build_info = server.build_info
        /\ server'.raw_output = server.raw_output
        /\ server'.last_state_timestamp = server.last_state_timestamp
        /\ server'.build_status = state_file[1].build_status
        /\ server'.build_started_at = state_file[1].build_started_at
    ]_vars

\* a refresh read a snapshot of the timestamp already seen with other issues
\* and another build status: the issues stayed, the status changed
C16_Witness ==
  /\ last_call.name = "refresh" /\ last_call.ret = FALSE
  /\ server.watch_mode
  /\ state_file # <<>>
  /\ state_file[1].timestamp = server.last_state_timestamp
  /\ state_file[1].issues # server.issues
  /\ server.issues # <<>>
  /\ server.build_status = "building"
  /\ server.build_started_at = state_file[1].build_started_at

\* ------------------------------------------------------------- claim C17

\* C17 as stated: the id is a function of the identity key: any two exposed
\* issues of equal (severity, source, message) have equal ids.
C17_IdFromIdentityKey ==
  \A a, b \in id_log : KeyOf(a.issue) = KeyOf(b.issue) => a.id = b.id

\* C17 amended: the id is a function of the identity key and the file: across
\* all tool calls and refreshes, any two exposed issues of equal (severity,
\* source, message, file) have equal ids, so the same issue always has the
\* same id.
C17_IdFromKeyAndFile ==
  \A a, b \in id_log :
    (KeyOf(a.issue) = KeyOf(b.issue) /\ a.issue.file = b.issue.file)
      => a.id = b.id

\* two snapshots exposed issues of equal key and file and different code and
\* output: both got the id of the first
C17_Witness ==
  /\ last_call.name = "get_issues"
  /\ server.last_state_timestamp = 2
  /\ \E a, b \in id_log :
       /\ a.issue = IssueA /\ b.issue = IssueA2
       /\ a.id = b.id
       /\ a.id = <<"issue-", "fc03c107">>

\* ----------------------------------------------------------- run_batch_mode

\* deduplicate_issues: the first issue of every identity key, in order
RECURSIVE DedupLoop(_, _, _)
DedupLoop(issues, k, seen) ==
  IF k > Len(issues) THEN <<>>
  ELSE IF IssueKey(issues[k]) \in seen THEN DedupLoop(issues, k + 1, seen)
  ELSE <<issues[k]>> \o DedupLoop(issues, k + 1, seen \cup {IssueKey(issues[k])})

deduplicate_issues(issues) == DedupLoop(issues, 1, {})

\* backend.parse_info_messages(lines)
RECURSIVE parse_info_messages(_, _)
parse_info_messages(lines, k) ==
  IF k > Len(lines) THEN <<>>
  ELSE parse_info_messages_line(lines[k]) \o parse_info_messages(lines, k + 1)

BatchFilter_keeps_all(issues, only_errors) == issues

\* the errors-only filter (modes.py lines 89-90)
BatchFilter(issues, only_errors) ==
  IF only_errors THEN SelectSeq(issues, LAMBDA i : i.level = "ERROR") ELSE issues

BatchExitCode_any_issue(unique_issues) == IF unique_issues # <<>> THEN 1 ELSE 0

\* error_count and the return value (modes.py lines 115-116)
BatchExitCode(unique_issues) ==
  IF \E i \in 1..Len(unique_issues) : unique_issues[i].level = "ERROR" THEN 1 ELSE 0

\* run_batch_mode on the lines of standard input: what it prints and returns
run_batch_mode(stdin, only_errors) ==
  LET lines == [k \in 1..Len(stdin) |-> rstrip(stdin[k])]
      info == extract_build_info(lines)
      issues == BatchFilter(parse_mkdocs_output(lines), only_errors)
      unique_issues == deduplicate_issues(issues)
      info_messages == parse_info_messages(lines, 1)
  IN [prints |-> (IF unique_issues = <<>>
                    THEN <<Ev("no_issues", <<>>)>>
                    ELSE PrintPendingIssues(unique_issues))
                   \o PrintInfoGroups(info_messages)
                   \o <<Ev("summary", [issues |-> unique_issues, build_info |-> info])>>,
      issues |-> unique_issues,
      code |-> BatchExitCode(unique_issues)]

MaxBatchLines == 3

BatchLines == {WarnX, WarnV, ErrX, BuiltLine, InfoLinkLine, <<"x", "sp">>}

\* the same input goes to run_batch_mode and, line by line, to a processor
\* constructed with the same errors_only flag
InitBatch ==
  /\ arg \in [lines : SeqsOf(BatchLines, 0, MaxBatchLines), errors_only : BOOLEAN]
  /\ ret = <<>>
  /\ pc = "call"
  /\ ProcessorNew
  /\ errors_only = arg.errors_only
  /\ ServerIdle
  /\ ModeIdle

CallRunBatchMode ==
  /\ pc = "call"
  /\ ret' = run_batch_mode(arg.lines, arg.errors_only)
  /\ pc' = "done"
  /\ UNCHANGED <<arg, procvars, srvvars, modevars>>

SpecBatch ==
  InitBatch /\ [][CallRunBatchMode \/ process_line_arg \/ finalize]_vars

\* ------------------------------------------------------------- claim C18

ErrorsOf(issues) == SelectSeq(issues, LAMBDA i : i.level = "ERROR")
NoWarning(issues) == \A i \in 1..Len(issues) : issues[i].level # "WARNING"

\* C18: with errors_only set, no WARNING-level issue is in the processor's
\* result list or was passed to on_issue, and finalize() returns exactly the
\* ERROR-level issues that the lines give without the flag; run_batch_mode
\* reports no WARNING-level issue either and exactly the ERROR-level issues it
\* reports without the flag.
C18_ErrorsOnly ==
  /\ errors_only =>
       /\ NoWarning(all_issues)
       /\ NoWarning(captured)
       /\ Finalized =>
            result[1].issues =
              ErrorsOf(CycleFindings(buffer, CycleStart(buffer, Len(buffer)),
                                     Len(buffer)))
  /\ (pc = "done" /\ arg.errors_only) =>
       /\ NoWarning(ret.issues)
       /\ \A k \in 1..Len(ret.prints) :
            ret.prints[k].ev = "issue" => ret.prints[k].data.level = "ERROR"
       /\ ret.issues = ErrorsOf(run_batch_mode(arg.lines, FALSE).issues)

\* a warning, an error and the warning again with errors_only set: the batch
\* run and the finalized processor both report the error alone
C18_Witness ==
  /\ pc = "done" /\ arg.errors_only
  /\ arg.lines = <<WarnX, ErrX, WarnX>>
  /\ ret.issues = <<Issue("ERROR", "mkdocs", <<"x">>, <<>>, <<>>, <<>>)>>
  /\ Finalized
  /\ received = arg.lines
  /\ result[1].issues = ret.issues
  /\ captured = ret.issues

\* ------------------------------------------------------------- claim C19

\* the issues run_batch_mode printed
ReportedIssues(prints) ==
  LET evs == SelectSeq(prints, LAMBDA e : e.ev = "issue")
  IN [k \in 1..Len(evs) |-> evs[k].data]

\* C19: run_batch_mode returns 1 if the issues it reports (after the
\* errors_only filter and the deduplication) include an ERROR-level issue and
\* 0 otherwise; input that gives WARNING-level issues only returns 0.
C19_BatchExitCode ==
  pc = "done" =>
    /\ ret.code \in {0, 1}
    /\ ret.code = 1 <=>
         \E k \in 1..Len(ReportedIssues(ret.prints)) :
           ReportedIssues(ret.prints)[k].level = "ERROR"
    /\ (\A k \in 1..Len(arg.lines) : ~HasErrorText(arg.lines[k])) => ret.code = 0

\* two different warnings were reported and the run returned 0
C19_Witness ==
  /\ pc = "done"
  /\ ~arg.errors_only
  /\ Len(ReportedIssues(ret.prints)) = 2
  /\ NoWarning(ReportedIssues(ret.prints)) = FALSE
  /\ \A k \in 1..2 : ReportedIssues(ret.prints)[k].level = "WARNING"
  /\ ret.code = 0

\* ------------------------------------------------------------- claim C20

IsFlushBoundary(line) ==
  detect_chunk_boundary(line, NoLine) \in {"build_complete", "server_started"}

\* line k is the first build_complete or server_started line of its cycle: every
\* earlier such line is separated from it by a rebuild_started line
FirstInCycle(lines, k) ==
  /\ IsFlushBoundary(lines[k])
  /\ \A j \in 1..(k - 1) :
       IsFlushBoundary(lines[j]) =>
         \E m \in (j + 1)..(k - 1) :
           detect_chunk_boundary(lines[m], NoLine) = "rebuild_started"

CountEv(evs, name) == Len(SelectSeq(evs, LAMBDA e : e.ev = name))

\* what one iteration of the read loop does, by the boundary of its line
C20_Step ==
  (exit_code' = <<>> /\ Len(received') = Len(received) + 1) =>
    LET b == detect_chunk_boundary(received'[Len(received')], NoLine)
        new == SubSeq(printed', Len(printed) + 1, Len(printed'))
    IN /\ (b \in {"build_complete", "server_started"} /\ build_output_shown) =>
            /\ build_output_shown'
            /\ issues_printed' = issues_printed
            /\ Len(pending_issues') >= Len(pending_issues)
            /\ \/ new = <<>>
               \/ /\ b = "server_started"
                  /\ ~server_url_printed
                  /\ Len(new) = 1
                  /\ new[1].ev = "server_url"
       /\ (b \in {"build_complete", "server_started"} /\ ~build_output_shown) =>
            /\ build_output_shown'
            /\ new # <<>>
            /\ new[1].ev = "build_time"
            /\ pending_issues' = <<>>
       /\ b = "rebuild_started" => (~build_output_shown' /\ new = <<>>)
       /\ b = "none" => (build_output_shown' = build_output_shown /\ new = <<>>)

\* C20: while the read loop runs, the full flush has run once for each first
\* build_complete or server_started line of a cycle and for no other line; a
\* further build_complete or server_started line of the same cycle prints
\* nothing, or for server_started the server URL alone if it was not printed
\* yet, and keeps the queued issues; a rebuild_started line prints nothing and
\* arms the flush again.
C20_FlushOncePerCycle ==
  /\ [](exit_code = <<>> =>
          /\ CountEv(printed, "build_time") =
               Cardinality({k \in 1..Len(received) : FirstInCycle(received, k)})
          /\ build_output_shown <=>
               \E k \in 1..Len(received) :
                 /\ IsFlushBoundary(received[k])
                 /\ \A m \in (k + 1)..Len(received) :
                      detect_chunk_boundary(received[m], NoLine) # "rebuild_started")
  /\ [][C20_Step]_vars

\* two cycles, the first with three build_complete or server_started lines:
\* two flushes and one server URL were printed
C20_Witness ==
  /\ exit_code = <<>>
  /\ CountEv(printed, "build_time") = 2
  /\ CountEv(printed, "server_url") = 1
  /\ Cardinality({k \in 1..Len(received) : IsFlushBoundary(received[k])}) >= 4
  /\ \E k \in 1..Len(received) :
       detect_chunk_boundary(received[k], NoLine) = "rebuild_started"

\* ------------------------------------------------------------- claim C21

\* the line matches no boundary, no record-start pattern and no severity pattern
UnrecognizedLine(line, p) ==
  /\ detect_chunk_boundary(line, p) = "none"
  /\ ~IsBlockHeader(line)
  /\ ~RecognizableLine(line)
  /\ ~HasWarningText(line) /\ ~HasErrorText(line)

\* C21: process_line on a line that matches no boundary, no record start and
\* no severity pattern, while no multi-line record is open, leaves the accepted
\* issues, the on_issue calls, the InfoMessages, the BuildInfo and the dedup
\* set unchanged and appends the line to the RollingBuffer.
C21_UnrecognizedInert ==
  [][(/\ exit_code' = <<>>
      /\ Len(received') = Len(received) + 1
      /\ UnrecognizedLine(received'[Len(received')], prev_line)
      /\ ~is_in_multiline_block(buffer))
     => /\ all_issues' = all_issues
        /\ captured' = captured
        /\ seen_issues' = seen_issues
        /\ all_info_messages' = all_info_messages
        /\ build_info' = build_info
        /\ buffer' = Evicted(Append(buffer, received'[Len(received')]))]_vars

\* stray error text arrived after a warning was accepted: the warning is still
\* the only issue and the text is the last line of the buffer
C21_Witness ==
  /\ exit_code = <<>>
  /\ received = <<WarnX, TraceLine>>
  /\ UnrecognizedLine(TraceLine, SomeLine(WarnX))
  /\ buffer = received
  /\ Len(all_issues) = 1
  /\ captured = all_issues

\* ---------------------------------------------------------- run_mcp_server

\* "\n".join(lines) then output.splitlines(): one trailing empty line is lost
JoinSplitlines(lines) ==
  IF lines # <<>> /\ lines[Len(lines)] = <<>>
    THEN SubSeq(lines, 1, Len(lines) - 1) ELSE lines

\* _parse_output(output) on a new server
parse_output(sv, output) ==
  LET lines == JoinSplitlines(output)
  IN [sv EXCEPT !.raw_output = lines,
                !.issues = deduplicate_issues(parse_mkdocs_output(lines)),
                !.build_info = [@ EXCEPT
                   !.server_url = extract_build_info(lines).server_url,
                   !.build_dir = extract_build_info(lines).build_dir,
                   !.build_time = extract_build_info(lines).build_time]]

\* the project directories of the model: None, a path that does not exist, a
\* directory without mkdocs.yml or conf.py, a documentation project
NoDir == <<>>
ProjectDirs == {NoDir, <<"missing">>, <<"nocfg">>, <<"docs">>}

\* run_mcp_server: the return value, whether the server was constructed and
\* run, and the server's state when it starts to serve
run_mcp_server(project_dir, pipe_mode, watch_mode, initial_build, stdin, build, file) ==
  LET B(b) == IF b THEN 1 ELSE 0
      mode_count == B(project_dir # NoDir /\ ~watch_mode) + B(pipe_mode) + B(watch_mode)
      refused == [code |-> 1, started |-> FALSE, server |-> <<>>]
      sv == [NewServer(watch_mode) EXCEPT !.project_dir = project_dir,
                                          !.pipe_mode = pipe_mode]
  IN IF mode_count = 0 THEN refused
     ELSE IF mode_count > 1 /\ ~(watch_mode /\ project_dir # NoDir) THEN refused
     ELSE IF project_dir = <<"missing">> THEN refused
     ELSE IF project_dir = <<"nocfg">> THEN refused
     ELSE [code |-> 0,
           started |-> TRUE,
           server |->
             << IF pipe_mode
                  THEN parse_output(sv, [k \in 1..Len(stdin) |-> rstrip(stdin[k])])
                ELSE IF watch_mode THEN refresh_from_state_file(sv, file).server
                ELSE IF initial_build /\ project_dir # NoDir
                  THEN parse_output(sv, build)
                ELSE sv >>]

MaxStdin == 1

McpLines == {WarnX, BuiltLine, <<>>}

InitMcp ==
  /\ arg \in [project_dir : ProjectDirs, pipe_mode : BOOLEAN, watch_mode : BOOLEAN,
               initial_build : BOOLEAN,
               stdin : SeqsOf(McpLines, 0, MaxStdin),
               build : {<<>>, <<ErrX, BuiltLine>>},
               file : {<<>>} \cup {<<snap>> : snap \in {x \in Snapshots :
                                       x.timestamp = 1 /\ x.build_status = "complete"
                                         /\ x.issues = <<IssueB>>}}]
  /\ ret = <<>>
  /\ pc = "call"
  /\ ProcessorInit

CallRunMcpServer ==
  /\ pc = "call"
  /\ ret' = run_mcp_server(arg.project_dir, arg.pipe_mode, arg.watch_mode,
                           arg.initial_build, arg.stdin, arg.build, arg.file)
  /\ pc' = "done"
  /\ UNCHANGED <<arg, procvars, srvvars, modevars>>

SpecMcp == InitMcp /\ [][CallRunMcpServer]_vars

\* ------------------------------------------------------------- claim C22

\* C22: run_mcp_server returns 1 without starting the server when none of
\* watch, project-dir and pipe is given and whenever pipe mode comes with
\* watch mode or a project directory or both; a run that starts the server
\* has exactly one mode, or watch mode with a project directory.
C22_ModeValidation ==
  pc = "done" =>
    LET project == arg.project_dir # NoDir
        refused == ret.code = 1 /\ ~ret.started
    IN /\ (~arg.watch_mode /\ ~project /\ ~arg.pipe_mode) => refused
       /\ (arg.pipe_mode /\ (arg.watch_mode \/ project)) => refused
       /\ ret.started =>
            \/ (arg.pipe_mode /\ ~arg.watch_mode /\ ~project)
            \/ (~arg.pipe_mode /\ (arg.watch_mode \/ project))

\* ------------------------------------------------------------- claim C23

WarningColonTokens == {"DeprecationWarning:"}

\* the line holds an error, exception or warning class name followed by a
\* colon and is not a source-location line
IsKindLine(l) ==
  /\ strip(l) # <<>>
  /\ \E i \in 1..Len(l) :
       l[i] \in ErrorColonTokens \cup ExceptionColonTokens \cup WarningColonTokens
  /\ ~StartsWithFile(strip(l))

\* C23: the message of the reconstructed Issue is the last line of the output
\* section that holds an error, exception or warning class name followed by a
\* colon and is not a source-location line, stripped; without such a line it
\* is "Code execution failed".
C23_KindLineSelection ==
  pc = "done" /\ "lines" \in DOMAIN arg =>
    \A c, o, e \in 1..Len(arg.lines) :
      RecordShape(arg.lines, arg.start, c, o, e) =>
        LET K == {k \in (o + 1)..(e - 1) : IsKindLine(arg.lines[k])}
        IN ret.issue.message =
             IF K = {} THEN CodeExecutionFailed ELSE strip(arg.lines[Max(K)])

\* ------------------------------------------------------------- claim C24

\* the lines of the window of n lines before the header that carry a hint
HintsWithin(lines, start, n) ==
  {j \in 1..(start - 1) : j >= start - n /\ FileHint(lines[j]) # <<>>}

\* the location without its session and line segments
FileSegment(file) ==
  SelectSeq(file, LAMBDA x : x \notin {SessionSegment(f) : f \in {"s", "t"}}
                                        \cup {LineSegment(n) : n \in {"3", "7"}})

\* C24: the file of the reconstructed Issue is the one named by the closest
\* of the 50 lines before the header that carries a hint, and is absent when
\* none of those 50 lines carries one.
C24_LookbackFifty ==
  pc = "done" /\ "lines" \in DOMAIN arg =>
    LET H == HintsWithin(arg.lines, arg.start, 50)
    IN FileSegment(ret.issue.file) =
         IF H = {} THEN <<>> ELSE FileHint(arg.lines[Max(H)])

\* ------------------------------------------------------------- claim C25

\* the index of the first top-level log line after start, Len(lines)+1 if none
ScanEnd(lines, start) ==
  Min({k \in (start + 1)..Len(lines) : TopLevelLogLine(lines[k])}
        \cup {Len(lines) + 1})

IsAnyMarker(l) == IsMarker(l, "codeis") \/ IsMarker(l, "outis")

\* the most recent section marker before line k is m
LastMarkerIs(lines, start, k, m) ==
  \E j \in (start + 1)..(k - 1) :
    /\ IsMarker(lines[j], m)
    /\ \A i \in (j + 1)..(k - 1) : ~IsAnyMarker(lines[i])

\* the scanned non-blank lines that are no marker and stand in section m
SectionIdx(lines, start, m) ==
  {k \in (start + 1)..(ScanEnd(lines, start) - 1) :
     /\ strip(lines[k]) # <<>>
     /\ ~IsAnyMarker(lines[k])
     /\ LastMarkerIs(lines, start, k, m)}

\* the lines at the indices S in ascending order, as the source stores them
RECURSIVE PickLines(_, _)
PickLines(lines, S) ==
  IF S = {} THEN <<>>
  ELSE <<rstrip(lines[Min(S)])>> \o PickLines(lines, S \ {Min(S)})

\* C25: the code snippet holds exactly the scanned non-blank lines whose most
\* recent section marker is "Code block is:", the output snippet exactly those
\* whose most recent marker is "Output is:", both in order; lines before the
\* first marker, blank lines and the markers themselves are in neither.
C25_SectionCapture ==
  pc = "done" /\ "lines" \in DOMAIN arg =>
    /\ ret.issue.code = PickLines(arg.lines, SectionIdx(arg.lines, arg.start, "codeis"))
    /\ ret.issue.output = PickLines(arg.lines, SectionIdx(arg.lines, arg.start, "outis"))
    /\ \A k \in 1..Len(ret.issue.code) :
         strip(ret.issue.code[k]) # <<>> /\ ~IsAnyMarker(ret.issue.code[k])
    /\ \A k \in 1..Len(ret.issue.output) :
         strip(ret.issue.output[k]) # <<>> /\ ~IsAnyMarker(ret.issue.output[k])

\* a line before any marker was dropped, and "Code block is:" seen again after
\* "Output is:" switched the capture back to the code snippet
C25_Witness ==
  /\ pc = "done" /\ "lines" \in DOMAIN arg
  /\ arg.lines = <<HeaderLine, <<"sp", "x">>, <<"codeis">>, <<"outis">>,
                   <<"codeis">>, <<"y", "sp">>>>
  /\ ret.issue.code = << <<"y">> >>
  /\ ret.issue.output = <<>>

\* ------------------------------------------------------------- claim C26

FileNames == MdNames \cup {"p.md"}

\* the output lines that hold a traceback frame of a code block
FrameIdx(lines, start) ==
  {k \in SectionIdx(lines, start, "outis") : HasFrame(strip(lines[k]))}

\* C26: the location is the file, if one was found, then the session and the
\* line of the last traceback frame of the output, if there is one, in that
\* order; it is absent when there is neither; a line segment comes only
\* together with a session segment.  No hint line before the header gives no
\* file segment, a hint on the line before the header gives one.
C26_LocationString ==
  pc = "done" /\ "lines" \in DOMAIN arg =>
    LET F == FrameIdx(arg.lines, arg.start)
        last == FirstFrame(strip(arg.lines[Max(F)]))
        frame_segments ==
          IF F = {} THEN <<>>
          ELSE <<SessionSegment(FrameSession(last)), LineSegment(FrameLine(last))>>
    IN /\ \E f \in {<<>>} \cup {<<n>> : n \in FileNames} :
            /\ ret.issue.file = f \o frame_segments
            /\ (\A j \in 1..(arg.start - 1) : FileHint(arg.lines[j]) = <<>>) => f = <<>>
            /\ (arg.start > 1 /\ FileHint(arg.lines[arg.start - 1]) # <<>>)
                 => f = FileHint(arg.lines[arg.start - 1])
       /\ \A k \in 1..Len(ret.issue.file) :
            ret.issue.file[k] \in {LineSegment("3"), LineSegment("7")}
              => k > 1 /\ ret.issue.file[k - 1] \in {SessionSegment("s"), SessionSegment("t")}

\* two frames of different sessions in the output of a record that follows a
\* Reading line: file, then session and line of the second frame
C26_Witness ==
  /\ pc = "done" /\ "lines" \in DOMAIN arg
  /\ arg.start = 2
  /\ arg.lines[1] = ReadingLine
  /\ \E k \in 1..(Len(arg.lines) - 1) :
       arg.lines[k] = <<"sp", "frame">> /\ arg.lines[k + 1] = <<"sp", "frame2">>
  /\ ret.issue.file = <<"a.md", "session 't'", "line 7">>

\* ------------------------------------------- parse_mkdocs_output, stepwise

\* the locals of the while loop and the indices whose line it read
LoopState(i, skip_until, issues, examined) ==
  [i |-> i, skip_until |-> skip_until, issues |-> issues, examined |-> examined]

\* an iteration that resumes on the line after the header
ParseIter_resumes_after_header(lines, st) ==
  IF st.i < st.skip_until THEN [st EXCEPT !.i = @ + 1]
  ELSE
    LET line == lines[st.i]
        st1 == [st EXCEPT !.examined = Append(@, st.i)]
    IN
    IF HasWarningText(line) \/ HasErrorText(line) THEN
      LET level == IF HasErrorText(line) THEN "ERROR" ELSE "WARNING" IN
      IF HasMarkdownExec(line) THEN
        LET r == parse_markdown_exec_issue(lines, st.i, level)
        IN [st1 EXCEPT !.issues = Append(@, r.issue), !.i = @ + 1]
      ELSE IF LooksLikeTraceback(strip(line)) THEN [st1 EXCEPT !.i = @ + 1]
      ELSE
        LET message == RegularMessage(line) IN
        IF strip(message) # <<>>
          THEN [st1 EXCEPT !.issues = Append(@, Issue(level, "mkdocs", strip(message),
                                                      MessageFile(message), <<>>, <<>>)),
                           !.i = @ + 1]
          ELSE [st1 EXCEPT !.i = @ + 1]
    ELSE [st1 EXCEPT !.i = @ + 1]

\* one iteration of the while loop of parse_mkdocs_output (source lines 141-186)
ParseIter(lines, st) ==
  IF st.i < st.skip_until THEN [st EXCEPT !.i = @ + 1]
  ELSE
    LET line == lines[st.i]
        st1 == [st EXCEPT !.examined = Append(@, st.i)]
    IN
    IF HasWarningText(line) \/ HasErrorText(line) THEN
      LET level == IF HasErrorText(line) THEN "ERROR" ELSE "WARNING" IN
      IF HasMarkdownExec(line) THEN
        LET r == parse_markdown_exec_issue(lines, st.i, level)
        IN [st1 EXCEPT !.issues = Append(@, r.issue),
                       !.skip_until = r.end,
                       !.i = r.end]
      ELSE IF LooksLikeTraceback(strip(line)) THEN [st1 EXCEPT !.i = @ + 1]
      ELSE
        LET message == RegularMessage(line) IN
        IF strip(message) # <<>>
          THEN [st1 EXCEPT !.issues = Append(@, Issue(level, "mkdocs", strip(message),
                                                      MessageFile(message), <<>>, <<>>)),
                           !.i = @ + 1]
          ELSE [st1 EXCEPT !.i = @ + 1]
    ELSE [st1 EXCEPT !.i = @ + 1]

MaxParseLines == 4

InsideWarnLine == <<"sp", "x", "WARNING">>
InfoErrLine == <<"INFO", "-", "x", "ERROR">>
EmptyWarnLine == <<"[stderr]", "WARNING", "-", "sp">>
DateErrLine == <<"date", "ERROR", "-", "x">>
WarnErrLine == <<"WARNING", "-", "y", "ERROR">>

EmptyDateErrLine == <<"date", "-", "ERROR">>

ParseLines ==
  {WarnX, HeaderLine, InsideWarnLine, InfoErrLine, EmptyWarnLine, DateErrLine,
   WarnErrLine, EmptyDateErrLine}

\* any list of up to MaxParseLines lines, and the lists that hold a whole record
InitOutput ==
  /\ arg \in [lines : SeqsOf(ParseLines, 0, MaxParseLines)
                         \cup {a.lines : a \in OutputInputs}]
  /\ ret = <<>>
  /\ pc = "call"
  /\ ProcessorInit

\* entry: issues = [], i = 0, skip_until = -1
CallParseMkdocsOutput ==
  /\ pc = "call"
  /\ ret' = LoopState(1, 0, <<>>, <<>>)
  /\ pc' = "loop"
  /\ UNCHANGED <<arg, procvars, srvvars, modevars>>

ParseStep ==
  /\ pc = "loop"
  /\ ret.i <= Len(arg.lines)
  /\ ret' = ParseIter(arg.lines, ret)
  /\ UNCHANGED <<arg, pc, procvars, srvvars, modevars>>

\* the loop condition is false: return issues
ParseReturn ==
  /\ pc = "loop"
  /\ ret.i > Len(arg.lines)
  /\ pc' = "done"
  /\ UNCHANGED <<arg, ret, procvars, srvvars, modevars>>

SpecOutput ==
  InitOutput /\ [][CallParseMkdocsOutput \/ ParseStep \/ ParseReturn]_vars

\* ------------------------------------------------------------- claim C27

NoRepeat(seq) == \A a, b \in 1..Len(seq) : a # b => seq[a] # seq[b]
Range(seq) == {seq[k] : k \in 1..Len(seq)}

\* C27: every iteration moves the index forward and never beyond one past the
\* last line, so the loop ends; no index is examined twice; for every record
\* header examined, no line between it and the record's closing log line is
\* examined and the closing line, if there is one, is; each issue comes
\* from one examined line, and the stepwise run returns what
\* parse_mkdocs_output returns.
C27_SinglePass ==
  /\ [][pc = "loop" /\ pc' = "loop"
          => ret'.i > ret.i /\ ret'.i <= Len(arg.lines) + 1]_vars
  /\ [](pc \in {"loop", "done"} =>
          /\ NoRepeat(ret.examined)
          /\ Len(ret.issues) <= Len(ret.examined)
          /\ \A h \in Range(ret.examined) :
               IsBlockHeader(arg.lines[h]) =>
                 /\ \A k \in (h + 1)..(ScanEnd(arg.lines, h) - 1) :
                      k \notin Range(ret.examined)
                 /\ (pc = "done" /\ ScanEnd(arg.lines, h) <= Len(arg.lines))
                      => ScanEnd(arg.lines, h) \in Range(ret.examined))
  /\ [](pc = "done" => ret.issues = parse_mkdocs_output(arg.lines))

\* a record with a line holding the word WARNING inside it and a warning as
\* its closing line: the inside line was not examined, the closing line gave
\* the second issue
C27_Witness ==
  /\ pc = "done"
  /\ arg.lines = <<HeaderLine, InsideWarnLine, WarnX>>
  /\ ret.examined = <<1, 3>>
  /\ Len(ret.issues) = 2
  /\ ret.issues[1].source = "markdown_exec"
  /\ ret.issues[2].message = <<"x">>

\* ------------------------------------------------------------- claim C28

\* the severity tag of a log line: the severity word that opens the line after
\* an optional [stderr] tag and timestamp; "none" when there is none
SeverityTag(line) ==
  LET idx == {k \in 1..Len(line) :
                /\ line[k] \in {"INFO", "DEBUG", "WARNING", "ERROR"}
                /\ \A j \in 1..(k - 1) : line[j] \in {"sp", "[stderr]", "date", "-"}}
  IN IF idx = {} THEN "none" ELSE line[Min(idx)]

\* C28: there are at most as many issues as lines tagged WARNING or ERROR; a
\* list of INFO- and DEBUG-tagged lines alone gives no issue; when every line
\* carries the same tag, every issue has that level.
C28_SeverityFromTag ==
  pc = "done" =>
    /\ Len(ret.issues) <=
         Cardinality({k \in 1..Len(arg.lines) :
                        SeverityTag(arg.lines[k]) \in {"WARNING", "ERROR"}})
    /\ (\A k \in 1..Len(arg.lines) : SeverityTag(arg.lines[k]) \in {"INFO", "DEBUG"})
         => ret.issues = <<>>
    /\ \A t \in {"WARNING", "ERROR"} :
         (\A k \in 1..Len(arg.lines) : SeverityTag(arg.lines[k]) = t)
           => \A n \in 1..Len(ret.issues) : ret.issues[n].level = t

\* ------------------------------------------------------------- claim C29

\* the line without its whitespace tokens
NoSp(line) == SelectSeq(line, LAMBDA t : t # "sp")

\* a WARNING or ERROR line that is nothing but prefixes: an optional [stderr]
\* tag, an optional timestamp with its dash, the severity word, an optional dash
PrefixOnlyLine(line) ==
  /\ line # <<>> /\ Head(line) # "sp"
  /\ \E tag \in {<<>>, <<"[stderr]">>}, stamp \in {<<>>, <<"date", "-">>},
        sev \in {<<"WARNING">>, <<"ERROR">>}, dash \in {<<>>, <<"-">>} :
       NoSp(line) = tag \o stamp \o sev \o dash

\* C29: every issue parse_mkdocs_output has collected, its own and those of
\* parse_markdown_exec_issue, has level ERROR or WARNING and a message that is
\* not empty and not blank; a list of lines that are nothing but [stderr],
\* timestamp and severity prefixes gives no issue.
C29_SeverityAndMessage ==
  pc \in {"loop", "done"} =>
    /\ \A n \in 1..Len(ret.issues) :
         /\ ret.issues[n].level \in {"ERROR", "WARNING"}
         /\ ret.issues[n].message # <<>>
         /\ strip(ret.issues[n].message) # <<>>
    /\ (\A k \in 1..Len(arg.lines) : PrefixOnlyLine(arg.lines[k])) => ret.issues = <<>>

\* two prefix-only lines gave no issue
C29_Witness ==
  /\ pc = "done"
  /\ arg.lines = <<EmptyWarnLine, EmptyDateErrLine>>
  /\ ret.examined = <<1, 2>>
  /\ ret.issues = <<>>

\* ---------------------------------------------------- is_in_multiline_block

MaxBlockLines == 3

IndentedLogLine == <<"sp", "INFO", "-", "z">>
DateWarnLine == <<"date", "WARNING", "x">>

BlockLines ==
  {HeaderLine, <<"sp", "x">>, FillerLine, IndentedLogLine, DateWarnLine,
   <<"DEBUG", "-", "z">>, <<>>}

InitBlock ==
  /\ arg \in [lines : SeqsOf(BlockLines, 0, MaxBlockLines)]
  /\ ret = <<>>
  /\ pc = "call"
  /\ ProcessorInit

CallIsInMultilineBlock ==
  /\ pc = "call"
  /\ ret' = is_in_multiline_block(arg.lines)
  /\ pc' = "done"
  /\ UNCHANGED <<arg, procvars, srvvars, modevars>>

SpecBlock == InitBlock /\ [][CallIsInMultilineBlock]_vars

\* ------------------------------------------------------------- claim C30

\* a non-indented INFO, WARNING or ERROR log line, bare or timestamp-prefixed
NonIndentedLogLine(l) ==
  /\ l # <<>> /\ Head(l) # "sp"
  /\ \/ StartsWithSevDash(l, {"INFO", "WARNING", "ERROR"})
     \/ StartsWithDateThenSev(l)

\* C30: is_in_multiline_block(lines) is True exactly when lines holds a
\* markdown_exec WARNING/ERROR header and no non-indented INFO, WARNING or
\* ERROR log line follows the last such header; indented lines do not close
\* the block.
C30_OpenBlock ==
  pc = "done" =>
    (ret <=>
       \E h \in 1..Len(arg.lines) :
         /\ IsBlockHeader(arg.lines[h])
         /\ \A k \in (h + 1)..Len(arg.lines) :
              ~IsBlockHeader(arg.lines[k]) /\ ~NonIndentedLogLine(arg.lines[k]))

\* -------------------------------------------------- the server's tool calls

\* what _run_build may capture from the build, and what a pipe may hold
BuildOutputs == {<<ErrX, BuiltLine>>, <<InfoLinkLine, WarnX, WarnX>>, <<Built2Line>>}

\* the servers run_mcp_server starts: watch mode, project-directory mode after
\* its initial build or without one, pipe mode after reading its input
ServersStarted ==
  {run_mcp_server(<<"docs">>, FALSE, TRUE, FALSE, <<>>, <<>>, <<>>).server[1]}
    \cup {run_mcp_server(<<"docs">>, FALSE, FALSE, b # <<>>, <<>>, b, <<>>).server[1] :
            b \in BuildOutputs \cup {<<>>}}
    \cup {run_mcp_server(NoDir, TRUE, FALSE, FALSE, in, <<>>, <<>>).server[1] :
            in \in BuildOutputs}

\* the get_info tool with the default arguments (mcp_server.py lines 416-476):
\* a refresh, then either the build-in-progress response or the info messages
get_info ==
  /\ last_call.n < MaxCalls
  /\ ~RebuildPending
  /\ LET r == refresh_from_state_file(server, state_file)
         building == get_build_in_progress_response(r.server)
     IN /\ server' = r.server
        /\ refresh_log' = Adopted(refresh_log, "get_info", r)
        /\ last_call' =
             [n |-> last_call.n + 1, name |-> "get_info", ret |-> r.ret,
              resp |-> IF building # <<>> THEN building
                       ELSE <<Response("info", <<>>, r.server.info_messages)>>]
  /\ UNCHANGED <<state_file, id_log, fnvars, procvars, modevars>>

\* the rebuild tool (mcp_server.py lines 338-382) up to its answer or, in
\* watch mode after a refresh that returned True, up to its call of
\* _handle_get_issues
rebuild ==
  /\ last_call.n < MaxCalls
  /\ ~RebuildPending
  /\ IF server.pipe_mode
       THEN /\ last_call' = [n |-> last_call.n + 1, name |-> "rebuild", ret |-> FALSE,
                             resp |-> <<Response("error", <<>>, <<>>)>>]
            /\ UNCHANGED <<server, refresh_log>>
     ELSE IF server.watch_mode
       THEN LET r == refresh_from_state_file(server, state_file)
            IN /\ server' = r.server
               /\ refresh_log' = Adopted(refresh_log, "rebuild", r)
               /\ last_call' =
                    [n |-> last_call.n + 1, name |-> "rebuild", ret |-> r.ret,
                     resp |-> IF r.ret THEN <<>>
                              ELSE <<Response("no_new_data", <<>>, <<>>)>>]
     ELSE IF server.project_dir = NoDir
       THEN /\ last_call' = [n |-> last_call.n + 1, name |-> "rebuild", ret |-> FALSE,
                             resp |-> <<Response("error", <<>>, <<>>)>>]
            /\ UNCHANGED <<server, refresh_log>>
     ELSE \E lines \in BuildOutputs :
            LET sv == parse_output(server, lines)
            IN /\ server' = sv
               /\ last_call' = [n |-> last_call.n + 1, name |-> "rebuild", ret |-> FALSE,
                                resp |-> <<Response("rebuilt", sv.issues, <<>>)>>]
               /\ UNCHANGED refresh_log
  /\ UNCHANGED <<state_file, id_log, fnvars, procvars, modevars>>

\* the watch-mode rebuild tool's call of _handle_get_issues (line 358)
rebuild_get_issues ==
  /\ RebuildPending
  /\ HandleGetIssues("rebuild", last_call.n)
  /\ UNCHANGED <<state_file, fnvars, procvars, modevars>>

InitTools ==
  /\ ProcessorNew /\ errors_only = FALSE /\ FnIdle /\ ModeIdle
  /\ server \in ServersStarted
  /\ state_file = <<>>
  /\ last_call = NoCall
  /\ id_log = {}
  /\ refresh_log = <<>>

NextTools ==
  write_state_file \/ get_issues \/ get_info \/ rebuild \/ rebuild_get_issues

SpecTools == InitTools /\ [][NextTools]_vars

\* ------------------------------------------------------------- claim C31

\* C31: while the server's last-read build status is "building", get_issues
\* and get_info answer with the build-in-progress response only, never with an
\* issue or info-message list; otherwise they answer with the server's current
\* issue list and info-message list.
C31_BuildingResponseOnly ==
  last_call.name \in {"get_issues", "get_info"} =>
    IF server.build_status = "building"
      THEN last_call.resp = <<Response("building", <<>>, <<>>)>>
      ELSE last_call.resp =
             << IF last_call.name = "get_issues"
                  THEN Response("issues", server.issues, <<>>)
                  ELSE Response("info", <<>>, server.info_messages) >>

\* get_info was called while the adopted snapshot, which holds issues and info
\* messages, says "building": the answer is the build-in-progress response
C31_Witness ==
  /\ last_call.name = "get_info"
  /\ server.build_status = "building"
  /\ server.issues # <<>> /\ server.info_messages # <<>>
  /\ last_call.resp = <<Response("building", <<>>, <<>>)>>

\* ------------------------------------------------------------- claim C32

\* the timestamps of the snapshots adopted, and of those a rebuild answered with
AdoptedStamps ==
  LET es == SelectSeq(refresh_log, LAMBDA e : e.call # "rebuild_answer")
  IN [k \in 1..Len(es) |-> es[k].timestamp]
AnsweredStamps ==
  LET es == SelectSeq(refresh_log, LAMBDA e : e.call = "rebuild_answer")
  IN [k \in 1..Len(es) |-> es[k].timestamp]

\* a refresh of this step returned True
RefreshedStep == last_call'.n = last_call.n + 1 /\ last_call'.ret

C32_Step ==
  /\ server'.last_state_timestamp >= server.last_state_timestamp
  /\ RefreshedStep =>
       /\ state_file # <<>>
       /\ state_file[1].timestamp > server.last_state_timestamp
       /\ server'.last_state_timestamp = state_file[1].timestamp
       /\ server'.issues = state_file[1].issues
       /\ server'.info_messages = state_file[1].info_messages
       /\ server'.build_info = state_file[1].build_info
       /\ server'.raw_output = state_file[1].raw_output
  /\ (last_call'.n = last_call.n + 1 /\ ~last_call'.ret /\ server.watch_mode) =>
       /\ server'.issues = server.issues
       /\ server'.info_messages = server.info_messages
       /\ server'.build_info = server.build_info
       /\ server'.raw_output = server.raw_output

\* C32: across watch-mode refreshes the last-seen timestamp never decreases;
\* a refresh returns True, replacing issues, info messages, build info and raw
\* output together, only when the snapshot's timestamp is strictly greater
\* than the last seen; so no snapshot is adopted twice, and the watch-mode
\* rebuild tool answers with new data at most once per snapshot.
C32_RefreshMonotone ==
  /\ [](NoRepeat(AdoptedStamps) /\ NoRepeat(AnsweredStamps))
  /\ [][C32_Step]_vars

\* two snapshots were adopted in turn, a rebuild answered with the second, and
\* the next rebuild found no new data
C32_Witness ==
  /\ Len(AdoptedStamps) = 2
  /\ \E k \in 1..Len(AnsweredStamps) :
       AnsweredStamps[k] = server.last_state_timestamp
  /\ last_call.name = "rebuild"
  /\ last_call.resp = <<Response("no_new_data", <<>>, <<>>)>>
  /\ state_file[1].timestamp = server.last_state_timestamp

\* ------------------------------------------------------------- claim C40

\* C40: the server's result fields describe one build: after
\* _parse_output(output) the issues, the build info, the raw output and the
\* info messages are all derived from that output, so get_info answers with
\* the informational findings of the last parsed build.
C40_FieldsOfOneBuild ==
  ~server.watch_mode =>
    LET lines == server.raw_output
    IN /\ server.issues = deduplicate_issues(parse_mkdocs_output(lines))
       /\ server.build_info.build_time = extract_build_info(lines).build_time
       /\ server.info_messages = parse_info_messages(lines, 1)
       /\ last_call.name = "get_info" =>
            last_call.resp = <<Response("info", <<>>, parse_info_messages(lines, 1))>>

\* ------------------------------------------- run_url_mode, fetch_build_log

\* run_url_mode on the lines of a fetched log (modes.py lines 470-504): what
\* it prints, the issues it prints and counts, and its return value
run_url_mode(lines, only_errors) ==
  LET url_issues == BatchFilter(parse_mkdocs_output(lines), only_errors)
      info_messages == parse_info_messages(lines, 1)
      info == extract_build_info(lines)
  IN [prints |-> PrintInfoGroups(info_messages)
                   \o PrintPendingIssues(url_issues)
                   \o (IF url_issues = <<>> /\ info_messages = <<>>
                         THEN <<Ev("no_issues", <<>>)>> ELSE <<>>)
                   \o <<Ev("summary", [issues |-> url_issues, build_info |-> info])>>,
      issues |-> url_issues,
      code |-> BatchExitCode(url_issues)]

\* _handle_fetch_build_log on the lines of a fetched log (mcp_server.py lines
\* 498-517): the issues and the counts of its response
fetch_build_log(lines) ==
  LET unique_issues == deduplicate_issues(parse_mkdocs_output(lines))
  IN [issues |-> unique_issues,
      total_issues |-> Len(unique_issues),
      info_messages |-> parse_info_messages(lines, 1)]

InitUrl ==
  /\ arg \in [lines : SeqsOf(BatchLines, 0, MaxBatchLines), errors_only : BOOLEAN]
  /\ ret = <<>>
  /\ pc = "call"
  /\ ProcessorNew
  /\ errors_only = arg.errors_only
  /\ ServerIdle
  /\ ModeIdle

CallRunUrlMode ==
  /\ pc = "call"
  /\ ret' = run_url_mode(arg.lines, arg.errors_only)
  /\ pc' = "url_done"
  /\ UNCHANGED <<arg, procvars, srvvars, modevars>>

CallFetchBuildLog ==
  /\ pc = "call"
  /\ ret' = fetch_build_log(arg.lines)
  /\ pc' = "fetch_done"
  /\ UNCHANGED <<arg, procvars, srvvars, modevars>>

SpecUrl == InitUrl /\ [][CallRunUrlMode \/ CallFetchBuildLog]_vars

\* ------------------------------------------------------------- claim C39

\* C39: all whole-log paths report the same issues for the same lines:
\* run_url_mode prints and counts each distinct issue once, its issue list
\* being the deduplicated, order-preserving list that run_batch_mode,
\* fetch_build_log and _parse_output compute from the parsed issues.
C39_SameIssueSet ==
  /\ pc = "url_done" =>
       /\ ret.issues = run_batch_mode(arg.lines, arg.errors_only).issues
       /\ NoRepeat([k \in 1..Len(ret.issues) |-> IssueKey(ret.issues[k])])
       /\ ~arg.errors_only =>
            ret.issues = parse_output(NewServer(FALSE), arg.lines).issues
  /\ pc = "fetch_done" =>
       /\ ret.issues = run_batch_mode(arg.lines, FALSE).issues
       /\ ret.issues = parse_output(NewServer(FALSE), arg.lines).issues

\* ------------------------------------------------------------- claim C38

\* C38: in one run of streaming mode the "build reported N warning(s) but
\* only M captured" hint is printed at most once, the inline print at a
\* boundary flush and the final summary counted together.
C38_HintAtMostOnce ==
  exit_code # <<>> => CountEv(printed, "stderr_hint") <= 1

\* ------------------------------------------------------------- claim C37

\* the issues printed, in order
IssuesPrinted(evs) ==
  LET es == SelectSeq(evs, LAMBDA e : e.ev = "issue")
  IN [k \in 1..Len(es) |-> es[k].data]

C37_Step ==
  LET new == SubSeq(printed', Len(printed) + 1, Len(printed'))
      handed == SubSeq(captured', Len(captured) + 1, Len(captured'))
      line == received'[Len(received')]
  IN /\ ( /\ exit_code' = <<>>
          /\ Len(received') = Len(received) + 1
          /\ detect_chunk_boundary(line, NoLine) = "rebuild_started" ) =>
            /\ new = <<>>
            /\ pending_issues' = pending_issues \o handed
     /\ IssuesPrinted(new) # <<>> =>
            /\ exit_code' # <<>> \/ IsFlushBoundary(line)
            /\ IssuesPrinted(new) = pending_issues \o handed
            /\ pending_issues' = <<>>
     /\ ( /\ exit_code' = <<>>
          /\ Len(received') = Len(received) + 1
          /\ IsFlushBoundary(line)
          /\ ~build_output_shown ) => pending_issues' = <<>>

\* C37: every issue handed to on_issue is printed exactly once before
\* run_streaming_mode returns, at the first flush of a build_complete or
\* server_started line after it was handed over or else at end of input; a
\* rebuild_started line neither prints nor discards the queued issues.
C37_PrintedExactlyOnce ==
  /\ [](/\ IssuesPrinted(printed) \o pending_issues = captured
        /\ exit_code # <<>> => pending_issues = <<>>)
  /\ [][C37_Step]_vars

\* the run has ended; an issue was queued when a rebuild_started line came
\* and one was handed over after it, and each was printed once
C37_Witness ==
  /\ exit_code # <<>>
  /\ Len(captured) >= 2
  /\ IssuesPrinted(printed) = captured
  /\ \E k \in 2..Len(received) :
       /\ received[k] = RebuildLine
       /\ received[k - 1] = WarnX
       /\ \E m \in (k + 1)..Len(received) : received[m] = ErrX

\* ------------------------------------------------------ run_interactive_mode

\* the length the raw buffer of the interactive run is cut back to
RAW_BUFFER_LIMIT == 10000

\* raw_buffer[-n:]
LastN(seq, n) == IF Len(seq) > n THEN SubSeq(seq, Len(seq) - n + 1, Len(seq)) ELSE seq

\* what the queue holds: a line read, or None for the end of the input
QueuedLine(l) == <<l>>
Sentinel == <<>>

\* the run after reader_thread.start() and tty.setraw (modes.py lines 335-377)
InteractiveStart(lines, ends) ==
  [mode |-> "FILTERED",
   line_queue |-> <<>>,
   raw_buffer |-> <<>>,
   should_quit |-> FALSE,
   input_finished |-> FALSE,
   stdin |-> lines,          \* the lines the input still holds
   stdin_ends |-> ends,      \* the input ends after them; else the read blocks
   reader |-> "check",       \* where stdin_reader is
   left_by |-> "",           \* how its loop was left: "quit", "eof", "raised"
   main |-> "key",           \* where the main thread is
   tty |-> "raw",            \* the terminal settings
   tty_open |-> TRUE,        \* tty_fd is open
   keys |-> 0,               \* keys pressed so far
   read |-> <<>>,            \* the lines readline returned, in order
   put |-> <<>>,             \* [thread, item] of every line_queue.put
   got |-> <<>>,             \* [thread, item, mode] of every line_queue.get
   calls |-> <<>>,           \* the thread of every process_line call
   joined |-> "no"]          \* how reader_thread.join ended

\* what process_line changes
linevars == <<buffer, scan_pos, all_issues, seen_issues, captured, accepted_log,
              all_info_messages, build_info, prev_line, cycle, received,
              raw_buffer, saw_build_output, in_serve_mode, saw_server_error,
              error_lines>>

\* what run_interactive_mode leaves alone in any case
InteractiveRest ==
  UNCHANGED <<todo, nchunks, fnvars, build_output_shown, server_url_printed,
              stderr_hint_printed, pending_issues, wrap>>

\* stdin_reader: the test of should_quit (lines 356-357)
reader_check ==
  /\ interactive # <<>> /\ interactive.reader = "check"
  /\ interactive' =
       IF interactive.should_quit
         THEN [interactive EXCEPT !.reader = "finally", !.left_by = "quit"]
         ELSE [interactive EXCEPT !.reader = "read"]
  /\ UNCHANGED <<linevars, errors_only, srvvars, result, issues_printed, printed,
                 exit_code>>
  /\ InteractiveRest

\* stdin_reader: readline returns a line, which is put on the queue, or
\* returns the empty string at the end of the input, or raises (lines 358-361)
reader_read ==
  /\ interactive # <<>> /\ interactive.reader = "read"
  /\ \/ /\ interactive.stdin # <<>>
        /\ interactive' =
             [interactive EXCEPT
                !.stdin = Tail(@),
                !.read = Append(@, Head(interactive.stdin)),
                !.line_queue = Append(@, QueuedLine(Head(interactive.stdin))),
                !.put = Append(@, [thread |-> "reader",
                                   item |-> QueuedLine(Head(interactive.stdin))]),
                !.reader = "check"]
     \/ /\ interactive.stdin = <<>> /\ interactive.stdin_ends
        /\ interactive' = [interactive EXCEPT !.reader = "finally", !.left_by = "eof"]
     \/ interactive' = [interactive EXCEPT !.reader = "finally", !.left_by = "raised"]
  /\ UNCHANGED <<linevars, errors_only, srvvars, result, issues_printed, printed,
                 exit_code>>
  /\ InteractiveRest

sentinel_put_unless_raised(left_by) ==
  IF left_by = "raised" THEN <<>> ELSE <<Sentinel>>

\* what the finally clause of stdin_reader puts on the queue, however the
\* loop was left (lines 362-364)
sentinel_put(left_by) == <<Sentinel>>

\* stdin_reader: the finally clause
reader_finally ==
  /\ interactive # <<>> /\ interactive.reader = "finally"
  /\ LET items == sentinel_put(interactive.left_by)
     IN interactive' =
          [interactive EXCEPT
             !.line_queue = @ \o items,
             !.put = @ \o [k \in 1..Len(items) |->
                             [thread |-> "reader", item |-> items[k]]],
             !.input_finished = TRUE,
             !.reader = "done"]
  /\ UNCHANGED <<linevars, errors_only, srvvars, result, issues_printed, printed,
                 exit_code>>
  /\ InteractiveRest

MaxKeys == 2

\* the main loop: get_key_nonblocking and the key's effect (lines 390-408)
main_key ==
  /\ interactive # <<>> /\ interactive.main = "key"
  /\ \/ /\ interactive' = [interactive EXCEPT !.main = "get"]
        /\ UNCHANGED printed
     \/ /\ interactive.keys < MaxKeys
        /\ \E key \in {"q", "r", "f"} :
             IF key = "q" THEN
               /\ interactive' = [interactive EXCEPT !.should_quit = TRUE,
                                                     !.main = "finally",
                                                     !.keys = @ + 1]
               /\ UNCHANGED printed
             ELSE IF key = "r" /\ interactive.mode # "RAW" THEN
               /\ interactive' = [interactive EXCEPT !.mode = "RAW", !.main = "get",
                                                     !.keys = @ + 1]
               /\ printed' = printed
                    \o <<Ev("switched", "RAW")>>
                    \o [k \in 1..Len(interactive.raw_buffer) |->
                          Ev("raw", rstrip(interactive.raw_buffer[k]))]
             ELSE IF key = "f" /\ interactive.mode # "FILTERED" THEN
               /\ interactive' = [interactive EXCEPT !.mode = "FILTERED",
                                                     !.main = "get", !.keys = @ + 1]
               /\ printed' = printed \o <<Ev("switched", "FILTERED")>>
                                     \o PrintPendingIssues(all_issues)
             ELSE
               /\ interactive' = [interactive EXCEPT !.main = "get", !.keys = @ + 1]
               /\ UNCHANGED printed
  /\ UNCHANGED <<linevars, errors_only, srvvars, result, issues_printed, exit_code>>
  /\ InteractiveRest

ToProcessor_always(mode) == TRUE

\* the line goes to the processor (line 419)
ToProcessor(mode) == mode # "RAW"

\* the main loop: line_queue.get(timeout=0.05) and what is done with the line
\* (lines 410-432)
main_get ==
  /\ interactive # <<>> /\ interactive.main = "get"
  /\ IF interactive.line_queue = <<>> THEN
       /\ interactive' = [interactive EXCEPT !.main = "key"]
       /\ UNCHANGED <<linevars, errors_only, srvvars, printed, issues_printed>>
     ELSE
       LET item == Head(interactive.line_queue)
           taken == [interactive EXCEPT
                       !.line_queue = Tail(@),
                       !.got = Append(@, [thread |-> "main", item |-> item,
                                          mode |-> interactive.mode])]
       IN IF item = Sentinel THEN
            /\ interactive' = [taken EXCEPT !.main = "finally"]
            /\ UNCHANGED <<linevars, errors_only, srvvars, printed, issues_printed>>
          ELSE
            LET kept == [taken EXCEPT
                           !.raw_buffer = LastN(Append(@, item[1]), RAW_BUFFER_LIMIT),
                           !.main = "key"]
            IN IF ~ToProcessor(interactive.mode) THEN
                 /\ interactive' = kept
                 /\ printed' = Append(printed, Ev("raw", rstrip(item[1])))
                 /\ UNCHANGED <<linevars, errors_only, srvvars, issues_printed>>
               ELSE
                 /\ interactive' = [kept EXCEPT !.calls = Append(@, "main")]
                 /\ ProcessLineBody(item[1])
                 /\ LET new == SubSeq(all_issues', Len(all_issues) + 1,
                                      Len(all_issues'))
                    IN /\ printed' = printed \o PrintPendingIssues(new)
                       /\ issues_printed' = issues_printed + Len(new)
  /\ UNCHANGED <<result, exit_code>>
  /\ InteractiveRest

\* the finally clause of the main loop: the terminal settings are restored
\* and the descriptor is closed (lines 434-436)
main_finally ==
  /\ interactive # <<>> /\ interactive.main = "finally"
  /\ interactive' = [interactive EXCEPT !.tty = "restored", !.tty_open = FALSE,
                                        !.main = "join"]
  /\ UNCHANGED <<linevars, errors_only, srvvars, result, issues_printed, printed,
                 exit_code>>
  /\ InteractiveRest

join_waits_for_thread(reader) == reader = "done"

\* reader_thread.join(timeout=1.0) returns: the thread has ended or the second
\* has passed (line 438)
join_returns(reader) == TRUE

main_join ==
  /\ interactive # <<>> /\ interactive.main = "join"
  /\ join_returns(interactive.reader)
  /\ interactive' = [interactive EXCEPT
                       !.joined = IF interactive.reader = "done"
                                    THEN "ended" ELSE "timed_out",
                       !.main = "finalize"]
  /\ UNCHANGED <<linevars, errors_only, srvvars, result, issues_printed, printed,
                 exit_code>>
  /\ InteractiveRest

\* processor.finalize(), the summary and the return value (lines 440-448)
main_finalize ==
  /\ interactive # <<>> /\ interactive.main = "finalize"
  /\ FinalizeBody
  /\ interactive' = [interactive EXCEPT !.main = "done"]
  /\ printed' = printed
       \o (IF all_issues' = <<>> THEN <<Ev("no_issues", <<>>)>> ELSE <<>>)
       \o print_summary(all_issues', build_info)
  /\ exit_code' = <<BatchExitCode(all_issues')>>
  /\ UNCHANGED <<issues_printed, build_output_shown, server_url_printed,
                 stderr_hint_printed, pending_issues, wrap>>

MaxInteractiveLines == 2

InteractiveLines == {WarnX, ErrX, <<"x", "sp">>}

InitInteractive ==
  /\ ProcessorNew /\ errors_only = FALSE /\ FnIdle /\ ServerIdle
  /\ wrap = <<>>
  /\ \E lines \in SeqsOf(InteractiveLines, 0, MaxInteractiveLines), ends \in BOOLEAN :
       interactive = InteractiveStart(lines, ends)

ReaderStep == reader_check \/ reader_read \/ reader_finally

MainStep == main_key \/ main_get \/ main_finally \/ main_join \/ main_finalize

NextInteractive == ReaderStep \/ MainStep

SpecInteractive == InitInteractive /\ [][NextInteractive]_vars

\* what the main thread does once its loop is left
MainAfterLoop == main_finally \/ main_join \/ main_finalize

\* the main thread keeps running once its loop is left: none of its
\* statements waits without a timeout
SpecInteractiveFair == SpecInteractive /\ WF_vars(MainAfterLoop)

\* ------------------------------------------------------------- claim C33

\* the lines among queue items, in order
LinesOf(items) ==
  LET ls == SelectSeq(items, LAMBDA it : it # Sentinel)
  IN [k \in 1..Len(ls) |-> ls[k][1]]

ItemsOf(log) == [k \in 1..Len(log) |-> log[k].item]

\* a is b with some elements left out
RECURSIVE IsSubSeq(_, _)
IsSubSeq(a, b) ==
  IF a = <<>> THEN TRUE
  ELSE IF b = <<>> THEN FALSE
  ELSE IF Head(a) = Head(b) THEN IsSubSeq(Tail(a), Tail(b))
  ELSE IsSubSeq(a, Tail(b))

\* C33: the reader thread only enqueues: every line it read, in read order,
\* and then exactly one end-of-input sentinel, also when reading failed; only
\* the main thread dequeues and calls process_line, so the lines reach the
\* processor in read order; the main loop takes nothing after the sentinel.
C33_ReaderOnlyEnqueues ==
  LET put == ItemsOf(interactive.put)
      got == ItemsOf(interactive.got)
      sentinels(items) == Len(SelectSeq(items, LAMBDA it : it = Sentinel))
  IN /\ \A k \in 1..Len(interactive.put) : interactive.put[k].thread = "reader"
     /\ \A k \in 1..Len(interactive.got) : interactive.got[k].thread = "main"
     /\ \A k \in 1..Len(interactive.calls) : interactive.calls[k] = "main"
     /\ Len(interactive.calls) = Len(received)
     /\ LinesOf(put) = interactive.read
     /\ sentinels(put) = IF interactive.reader = "done" THEN 1 ELSE 0
     /\ sentinels(put) = 1 => put[Len(put)] = Sentinel
     /\ got = SubSeq(put, 1, Len(got))
     /\ put = got \o interactive.line_queue
     /\ IsSubSeq(received, interactive.read)
     /\ sentinels(got) = 1 =>
          /\ got[Len(got)] = Sentinel
          /\ interactive.main \notin {"key", "get"}

\* reading failed after a line was read: the line and then the sentinel were
\* queued, the main thread processed the line and stopped at the sentinel
C33_Witness ==
  /\ interactive.left_by = "raised"
  /\ interactive.reader = "done"
  /\ interactive.stdin # <<>>
  /\ Len(interactive.read) >= 1
  /\ received = interactive.read
  /\ interactive.got # <<>>
  /\ interactive.got[Len(interactive.got)].item = Sentinel
  /\ interactive.main = "done"
  /\ ~interactive.should_quit

\* ------------------------------------------------------------- claim C34

\* the run has written its summary and returned
SummaryReached ==
  /\ result # <<>>
  /\ exit_code # <<>>
  /\ CountEv(printed, "summary") = 1

\* C34: after the user has asked to quit the main loop is left, the terminal
\* settings are restored and the tty descriptor is closed, and finalize() and
\* the summary are reached, the join having returned whether or not the
\* reader thread has come back from its read.
C34_QuitReachesSummary ==
  /\ [](interactive.should_quit => interactive.main \notin {"key", "get"})
  /\ [](interactive.main \in {"join", "finalize", "done"} =>
          interactive.tty = "restored" /\ ~interactive.tty_open)
  /\ [](interactive.main = "done" <=> SummaryReached)
  /\ (interactive.should_quit ~> (interactive.main = "done" /\ SummaryReached))

\* the user quit while the reader was blocked in readline: the join timed
\* out and the summary was written
C34_Witness ==
  /\ interactive.should_quit
  /\ interactive.main = "done"
  /\ interactive.joined = "timed_out"
  /\ interactive.reader = "read"
  /\ interactive.stdin = <<>> /\ ~interactive.stdin_ends
  /\ interactive.tty = "restored" /\ ~interactive.tty_open
  /\ SummaryReached

\* ------------------------------------------------------------- claim C36

\* the lines taken from the queue, and those taken while the display was
\* FILTERED
LinesTaken == LinesOf(ItemsOf(interactive.got))
LinesTakenFiltered ==
  LinesOf(ItemsOf(SelectSeq(interactive.got, LAMBDA g : g.mode = "FILTERED")))

\* C36: every line taken from the queue is appended to the raw buffer, which
\* keeps the most recent 10000 lines, and goes to the processor iff the
\* display mode is FILTERED at that moment; a line taken in RAW mode is never
\* classified later, so its issues are in neither the filtered view nor the
\* final summary.
C36_ProcessedIffFiltered ==
  /\ interactive.raw_buffer = LastN(LinesTaken, RAW_BUFFER_LIMIT)
  /\ received = LinesTakenFiltered
  /\ interactive.main = "done" =>
       result[1].issues =
         deduplicate_issues(parse_mkdocs_output(
           [k \in 1..Len(LinesTakenFiltered) |-> rstrip(LinesTakenFiltered[k])]))

\* the run has ended; a warning line was taken in RAW mode and an error line
\* in FILTERED mode: the summary holds the error alone
C36_Witness ==
  /\ interactive.main = "done"
  /\ \E k \in 1..Len(interactive.got) :
       interactive.got[k].item = QueuedLine(WarnX) /\ interactive.got[k].mode = "RAW"
  /\ received = <<ErrX>>
  /\ Len(result[1].issues) = 1
  /\ result[1].issues[1].level = "ERROR"
  /\ interactive.raw_buffer = <<WarnX, ErrX>>

\* ------------------------------------------------------------ run_wrap_mode

\* the commands of the model: one that is not on the path, one that may not
\* be executed, one that starts
Commands == {"missing", "noexec", "build"}

\* run_wrap_mode before subprocess.Popen (modes.py lines 507-518)
WrapStart(command) ==
  [pc |-> "popen",
   command |-> command,
   sys_stdin |-> "old_stdin",  \* what sys.stdin is: "old_stdin" or "pipe"
   child |-> "none",           \* the child: "none", "running", "exited"
   signals |-> <<>>,           \* what terminate() and kill() have sent
   raised |-> FALSE,           \* run_streaming_mode has raised
   ret |-> <<>>]               \* the return value, "raised" for an exception

WrapRest ==
  UNCHANGED <<todo, nchunks, fnvars, result, build_output_shown, issues_printed,
              server_url_printed, stderr_hint_printed, pending_issues,
              linevars, errors_only, srvvars, interactive>>

\* subprocess.Popen and, if it started the child, the redirection of
\* sys.stdin (lines 519-536)
wrap_popen ==
  /\ wrap # <<>> /\ wrap.pc = "popen"
  /\ IF wrap.command = "missing" THEN
       /\ wrap' = [wrap EXCEPT !.pc = "done", !.ret = <<127>>]
       /\ printed' = Append(printed, Ev("command_not_found", wrap.command))
     ELSE IF wrap.command = "noexec" THEN
       /\ wrap' = [wrap EXCEPT !.pc = "done", !.ret = <<126>>]
       /\ printed' = Append(printed, Ev("permission_denied", wrap.command))
     ELSE
       /\ wrap' = [wrap EXCEPT !.pc = "streaming", !.child = "running",
                               !.sys_stdin = "pipe"]
       /\ UNCHANGED printed
  /\ UNCHANGED exit_code
  /\ WrapRest

\* the child ends, by itself or by a signal
child_exit ==
  /\ wrap # <<>> /\ wrap.child = "running"
  /\ wrap' = [wrap EXCEPT !.child = "exited"]
  /\ UNCHANGED <<printed, exit_code>>
  /\ WrapRest

\* run_streaming_mode (line 539): an iteration of its read loop
wrap_stream_line ==
  /\ wrap # <<>> /\ wrap.pc = "streaming" /\ ~wrap.raised
  /\ stream_line

\* run_streaming_mode: the end of the child's output
wrap_stream_end ==
  /\ wrap # <<>> /\ wrap.pc = "streaming" /\ ~wrap.raised
  /\ stream_end

\* run_streaming_mode raises
wrap_stream_raises ==
  /\ wrap # <<>> /\ wrap.pc = "streaming" /\ ~wrap.raised
  /\ exit_code = <<>>
  /\ wrap' = [wrap EXCEPT !.raised = TRUE]
  /\ UNCHANGED <<printed, exit_code>>
  /\ WrapRest

\* the finally clause: sys.stdin is restored and a child that is still
\* running is terminated (lines 540-544)
wrap_finally ==
  /\ wrap # <<>> /\ wrap.pc = "streaming"
  /\ exit_code # <<>> \/ wrap.raised
  /\ wrap' = IF wrap.child = "running"
               THEN [wrap EXCEPT !.sys_stdin = "old_stdin",
                                 !.signals = Append(@, "SIGTERM"),
                                 !.pc = "wait"]
               ELSE [wrap EXCEPT !.sys_stdin = "old_stdin", !.pc = "return"]
  /\ UNCHANGED <<printed, exit_code>>
  /\ WrapRest

wait_timeout_expired_gives_up(w) == [w EXCEPT !.pc = "return"]

\* except subprocess.TimeoutExpired: proc.kill() (lines 547-548)
wait_timeout_expired(w) ==
  [w EXCEPT !.signals = Append(@, "SIGKILL"), !.pc = "wait_killed"]

\* proc.wait(timeout=5) returns or raises TimeoutExpired (lines 545-548)
wrap_wait ==
  /\ wrap # <<>> /\ wrap.pc = "wait"
  /\ wrap' = IF wrap.child = "exited" THEN [wrap EXCEPT !.pc = "return"]
             ELSE wait_timeout_expired(wrap)
  /\ UNCHANGED <<printed, exit_code>>
  /\ WrapRest

\* proc.wait() after the kill returns when the child has ended (line 549)
wrap_wait_killed ==
  /\ wrap # <<>> /\ wrap.pc = "wait_killed"
  /\ wrap.child = "exited"
  /\ wrap' = [wrap EXCEPT !.pc = "return"]
  /\ UNCHANGED <<printed, exit_code>>
  /\ WrapRest

\* run_wrap_mode returns the result or lets the exception pass (line 551)
wrap_return ==
  /\ wrap # <<>> /\ wrap.pc = "return"
  /\ wrap' = [wrap EXCEPT !.pc = "done",
                          !.ret = IF wrap.raised THEN <<"raised">> ELSE exit_code]
  /\ UNCHANGED <<printed, exit_code>>
  /\ WrapRest

InitWrap ==
  /\ ProcessorNew /\ errors_only = FALSE /\ FnIdle /\ ServerIdle
  /\ interactive = <<>>
  /\ \E command \in Commands : wrap = WrapStart(command)

NextWrap ==
  \/ wrap_popen \/ child_exit \/ wrap_stream_line \/ wrap_stream_end
  \/ wrap_stream_raises \/ wrap_finally \/ wrap_wait \/ wrap_wait_killed
  \/ wrap_return

SpecWrap == InitWrap /\ [][NextWrap]_vars

\* ------------------------------------------------------------- claim C35

\* C35: run_wrap_mode cleans up on every path: a command that cannot be
\* started gives 127 (not found) or 126 (permission denied) and streaming mode
\* is not run; otherwise, when it returns or streaming mode has raised,
\* sys.stdin is what it was before and the child no longer runs: it was
\* terminated if it still ran, and killed if the 5 second wait ran out.
C35_WrapCleansUp ==
  /\ wrap.command = "missing" =>
       /\ wrap.pc \in {"popen", "done"}
       /\ wrap.pc = "done" => wrap.ret = <<127>>
       /\ received = <<>> /\ exit_code = <<>> /\ wrap.child = "none"
       /\ wrap.sys_stdin = "old_stdin"
  /\ wrap.command = "noexec" =>
       /\ wrap.pc \in {"popen", "done"}
       /\ wrap.pc = "done" => wrap.ret = <<126>>
       /\ received = <<>> /\ exit_code = <<>> /\ wrap.child = "none"
       /\ wrap.sys_stdin = "old_stdin"
  /\ (wrap.command = "build" /\ wrap.pc = "done") =>
       /\ wrap.sys_stdin = "old_stdin"
       /\ wrap.child = "exited"
       /\ wrap.ret = IF wrap.raised THEN <<"raised">> ELSE exit_code
       /\ wrap.signals \in {<<>>, <<"SIGTERM">>, <<"SIGTERM", "SIGKILL">>}
  /\ wrap.pc = "wait_killed" => wrap.signals = <<"SIGTERM", "SIGKILL">>

\* streaming mode raised while the child ran; the child did not end within
\* the wait, was killed, and the call has ended with sys.stdin restored
C35_Witness ==
  /\ wrap.pc = "done"
  /\ wrap.raised
  /\ received # <<>>
  /\ wrap.signals = <<"SIGTERM", "SIGKILL">>
  /\ wrap.child = "exited"
  /\ wrap.sys_stdin = "old_stdin"

=============================================================================
